---- MODULE Spec2Model ----
(***************************************************************************)
(* BucketORM: a document store over an S3-compatible bucket.               *)
(*                                                                         *)
(* The module models the storage adapter (a flat key -> JSON text map),    *)
(* the key scheme, the record codec, the CRUD operations of BucketModel,   *)
(* the validation gate of BucketSchemaModel and the instance cache of      *)
(* BucketORM.  Asynchronous methods are split at their awaits: every       *)
(* action below is one synchronous stretch of a method, ending at the      *)
(* storage call it awaits or at its return.                                *)
(***************************************************************************)
EXTENDS Integers, Sequences, FiniteSets, TLC

VARIABLES
    store,      \* the bucket: storage key -> stored JSON document
    now,        \* the latest instant `new Date()` has returned
    call,       \* per caller: the call in flight (or the last one returned)
    callers,    \* the callers that issue calls (one caller = sequential use)
    ncalls,     \* calls issued so far
    life,       \* <<modelName, id>> -> "live" (created, not deleted since) or "deleted"
    lastPut,    \* storage key -> caller whose upload reached the key last
    lastWrite,  \* storage key -> the last create, update or delete that reached it
    models,     \* BucketORM.models: cache key -> cached instance
    nextRef,    \* identity given to the next constructed instance
    lastGet,    \* the last BucketORM.model / schemaModel call and what it returned
    firstGet,   \* <<fn, modelName>> -> the instance the first such call returned
    firstSchema,\* modelName -> the schema the first schemaModel call for it supplied
    built       \* <<kind, modelName>> -> instances of that kind constructed for the name

vars == <<store, now, call, callers, ncalls, life, lastPut, lastWrite, models, nextRef, lastGet,
          firstGet, firstSchema, built>>

(***************************************************************************)
(* Bounds                                                                  *)
(***************************************************************************)
MaxClock == 1
MaxCalls == 3

Procs == {1, 2}

(***************************************************************************)
(* JavaScript strings                                                      *)
(***************************************************************************)
StartsWith(s, p) ==
    Len(p) <= Len(s) /\ SubSeq(s, 1, Len(p)) = p

\* String.prototype.endsWith
EndsWith(s, p) ==
    Len(p) <= Len(s) /\ SubSeq(s, Len(s) - Len(p) + 1, Len(s)) = p

\* position of the first occurrence of p in s, 0 when there is none
IndexOf(s, p) ==
    LET hits == {i \in 1..(Len(s) - Len(p) + 1) : SubSeq(s, i, i + Len(p) - 1) = p}
    IN  IF hits = {} THEN 0 ELSE CHOOSE i \in hits : \A j \in hits : i <= j

\* String.prototype.replace with a string pattern: the FIRST occurrence only
ReplaceFirst(s, p, r) ==
    LET i == IndexOf(s, p)
    IN  IF i = 0 THEN s
        ELSE SubSeq(s, 1, i - 1) \o r \o SubSeq(s, i + Len(p), Len(s))

(***************************************************************************)
(* JavaScript values.  Every value has the same shape so that values of    *)
(* different types can be compared: t is the type, s the text of a string, *)
(* n the number, the boolean (0/1) or a Date's instant.  An ISO-8601       *)
(* string is the string "iso8601" tagged with the instant it denotes.      *)
(***************************************************************************)
Str(s)       == [s |-> s, t |-> "string", n |-> 0]
Bool(b)      == [s |-> "", t |-> "boolean", n |-> IF b THEN 1 ELSE 0]
Num(n)       == [s |-> "", t |-> "number", n |-> n]
DateOf(n)    == [s |-> "", t |-> "Date", n |-> n]
Undefined    == [s |-> "", t |-> "undefined", n |-> 0]
InvalidDate  == [s |-> "Invalid Date", t |-> "Date", n |-> 0]

\* Date.prototype.toISOString, as JSON.stringify calls it
ToISOString(d) == [s |-> "iso8601", t |-> "string", n |-> d.n]

\* new Date(string)
NewDate(v) == IF v.s = "iso8601" THEN DateOf(v.n) ELSE InvalidDate

\* !v
Falsy(v) ==
    \/ v.t = "undefined"
    \/ v.t = "string" /\ v.s = ""
    \/ v.t = "number" /\ v.n = 0
    \/ v.t = "boolean" /\ v.n = 0

\* an object literal { gt: n }, as a where clause may carry it
Gt(n)        == [s |-> "gt", t |-> "object", n |-> n]

\* a === b: primitives by value, objects (a Date, an object literal) by
\* identity.  An object met in a where clause and a value of a decoded record
\* are never the same object.
StrictEquals(a, b) == a = b /\ a.t \notin {"Date", "object"}

(***************************************************************************)
(* Records: functions from field names to values.                          *)
(***************************************************************************)
EmptyRec == [f \in {} |-> Undefined]

\* record[field], undefined when the field is missing
Field(r, f) == IF f \in DOMAIN r THEN r[f] ELSE Undefined

\* { ...a, ...b }
Spread(a, b) ==
    [f \in (DOMAIN a) \cup (DOMAIN b) |-> IF f \in DOMAIN b THEN b[f] ELSE a[f]]

Null    == [found |-> FALSE, rec |-> EmptyRec]
Some(r) == [found |-> TRUE, rec |-> r]

(***************************************************************************)
(* Record codec                                                            *)
(***************************************************************************)
\* JSON.stringify(record, null, 2): undefined fields are dropped, Dates are
\* written as ISO-8601 strings
Stringify(r) ==
    [f \in {g \in DOMAIN r : r[g].t # "undefined"} |->
        IF r[f].t = "Date" THEN ToISOString(r[f]) ELSE r[f]]

\* JSON.parse followed by the conversion of createdAt / updatedAt
ParseRecord(doc) ==
    [f \in DOMAIN doc |->
        IF f \in {"createdAt", "updatedAt"} /\ ~Falsy(doc[f]) /\ doc[f].t = "string"
        THEN NewDate(doc[f])
        ELSE doc[f]]

(***************************************************************************)
(* Key scheme                                                              *)
(***************************************************************************)
JsonSuffix == ".json"

\* (variant) a key without the separator between model name and id
GenerateKeyUnseparated(modelName, id) == modelName \o id \o JsonSuffix

GenerateKey(modelName, id) == modelName \o "/" \o id \o JsonSuffix

ModelPrefix(modelName) == modelName \o "/"

\* key.replace(prefix, '').replace('.json', '')
IdOfKey(prefix, key) == ReplaceFirst(ReplaceFirst(key, prefix, ""), JsonSuffix, "")

(***************************************************************************)
(* Storage adapter                                                         *)
(***************************************************************************)
Download(st, key) == IF key \in DOMAIN st THEN Some(st[key]) ELSE Null

Upload(st, key, body) ==
    [k \in (DOMAIN st) \cup {key} |-> IF k = key THEN body ELSE st[k]]

DeleteObject(st, key) == [k \in (DOMAIN st) \ {key} |-> st[k]]

ListKeys(st, prefix) == {k \in DOMAIN st : StartsWith(k, prefix)}

\* the orders in which a listing may enumerate a set of keys
Orderings(S) ==
    {q \in [1..Cardinality(S) -> S] : \A i, j \in 1..Cardinality(S) : i # j => q[i] # q[j]}

\* the errors the S3 client may throw from a send, as <<name, HTTP status>>,
\* other than NoSuchKey: the bucket does not exist, the credentials are not
\* allowed the call, the service failed
S3Errors == { <<"NoSuchBucket", 404>>, <<"AccessDenied", 403>>, <<"InternalError", 500>> }

\* S3StorageAdapter.download returns null on this error instead of throwing:
\* error.name === 'NoSuchKey' || error.$metadata?.httpStatusCode === 404
DownloadReturnsNull(err) == err[1] = "NoSuchKey" \/ err[2] = 404

\* the code of the BucketORMException the adapter throws otherwise
AdapterError == "STORAGE_ERROR"

\* an object whose text is not JSON (written by some other client of the
\* bucket): JSON.parse throws a SyntaxError on it
NotJSON == ("" :> Undefined)

\* BucketModel.getRecord throws: JSON.parse fails and the catch wraps the error
GetRecordThrows(st, modelName, id) ==
    LET got == Download(st, GenerateKey(modelName, id))
    IN  got.found /\ got.rec = NotJSON

\* the code of the exception getRecord throws then
GetRecordError == "STORAGE_ERROR"

\* BucketModel.getRecord, when it does not throw
GetRecord(st, modelName, id) ==
    LET got == Download(st, GenerateKey(modelName, id))
    IN  IF ~got.found THEN Null ELSE Some(ParseRecord(got.rec))

(***************************************************************************)
(* Array.prototype.slice and the where / offset / limit stages of findMany *)
(***************************************************************************)
Min(a, b) == IF a <= b THEN a ELSE b
Max(a, b) == IF a >= b THEN a ELSE b

\* arr.slice(start, end): a negative index counts from the end
Slice(arr, start, end) ==
    LET len  == Len(arr)
        from == IF start < 0 THEN Max(len + start, 0) ELSE Min(start, len)
        to   == IF end < 0 THEN Max(len + end, 0) ELSE Min(end, len)
    IN  SubSeq(arr, from + 1, to)

\* (variant) a filter that keeps a record when SOME named field matches
MatchesSome(record, where) ==
    \E f \in DOMAIN where : StrictEquals(Field(record, f), where[f])

\* Object.entries(where).every(([key, value]) => record[key] === value)
Matches(record, where) ==
    \A f \in DOMAIN where : StrictEquals(Field(record, f), where[f])

\* if (options?.where) filteredRecords = records.filter(...)
ApplyWhere(records, opts) ==
    IF opts.where.def
    THEN SelectSeq(records, LAMBDA r : Matches(r, opts.where.v))
    ELSE records

\* (variant) limit first, then offset
PaginateLimitFirst(records, opts) ==
    LET afterLimit == IF opts.limit.def
                      THEN Slice(records, 0, opts.limit.v)
                      ELSE records
    IN  IF opts.offset.def
        THEN Slice(afterLimit, opts.offset.v, Len(afterLimit))
        ELSE afterLimit

\* offset first, then limit
Paginate(records, opts) ==
    LET afterOffset == IF opts.offset.def
                       THEN Slice(records, opts.offset.v, Len(records))
                       ELSE records
    IN  IF opts.limit.def THEN Slice(afterOffset, 0, opts.limit.v) ELSE afterOffset

FinalRecords(records, opts) == Paginate(ApplyWhere(records, opts), opts)

(***************************************************************************)
(* Zod object schemas: field -> required type.  parse rejects a missing or *)
(* ill-typed field and returns the data stripped of unknown keys; the      *)
(* partial form makes every field optional.                                *)
(***************************************************************************)
NoSchema == <<>>

UserSchema == ("id" :> "string") @@ ("name" :> "string") @@ ("active" :> "boolean")

ZodAccepts(schema, data) ==
    \A f \in DOMAIN schema : Field(data, f).t = schema[f]

ZodPartialAccepts(schema, data) ==
    \A f \in DOMAIN schema : Field(data, f).t \in {schema[f], "undefined"}

\* the normalized output of a successful parse
ZodOutput(schema, data) ==
    [f \in (DOMAIN schema) \cap (DOMAIN data) |-> data[f]]

(***************************************************************************)
(* Model instances                                                         *)
(***************************************************************************)
\* new BucketModel(modelName, storage)
NewBucketModel(modelName, ref) ==
    [schema |-> NoSchema, ref |-> ref, kind |-> "BucketModel", name |-> modelName]

\* new BucketSchemaModel(modelName, storage, { schema })
NewBucketSchemaModel(modelName, schema, ref) ==
    [schema |-> schema, ref |-> ref, kind |-> "BucketSchemaModel", name |-> modelName]

NoInstance == [schema |-> NoSchema, ref |-> 0, kind |-> "none", name |-> ""]

(***************************************************************************)
(* The inputs the callers draw from                                        *)
(***************************************************************************)
ModelNames == {"m", "m/n"}

\* ".jsona" is an id that contains the file suffix; no id contains "/"
Ids == {"a", ".jsona"}

PlainM  == NewBucketModel("m", 0)
PlainMN == NewBucketModel("m/n", 0)
SchemaM == NewBucketSchemaModel("m", UserSchema, 0)

Instances == {PlainM, PlainMN, SchemaM}

\* <<instance, id>> as the callers pass them: well-formed ids, and through
\* one instance of each kind an empty id and an id that is not a string
Targets ==
    { <<PlainM, Str("a")>>, <<PlainM, Str(".jsona")>>, <<PlainMN, Str("a")>>,
      <<SchemaM, Str("a")>>,
      <<PlainM, Str("")>>, <<PlainM, Num(7)>>, <<SchemaM, Str("")>> }

\* a create payload may also carry no id at all
CreateTargets == Targets \cup {<<PlainM, Undefined>>}

\* !id || typeof id !== 'string'
InvalidId(idv) == Falsy(idv) \/ idv.t # "string"

\* create payloads for an id: a full one, one that carries timestamps of its
\* own and a Date in a field `seen` (which UserSchema does not declare), and
\* one without the field `active` (which UserSchema requires)
CreateData(idv) ==
    LET base == IF idv.t = "undefined" THEN <<>> ELSE ("id" :> idv)
        full == base @@ ("name" :> Str("A")) @@ ("active" :> Bool(TRUE))
    IN  IF InvalidId(idv)
        THEN {full}
        ELSE { full,
               base @@ ("name" :> Str("Z")) @@ ("active" :> Bool(FALSE))
                    @@ ("createdAt" :> DateOf(9)) @@ ("updatedAt" :> DateOf(8))
                    @@ ("seen" :> DateOf(5)),
               base @@ ("name" :> Str("A")) }

UpdateData ==
    { ("active" :> Bool(FALSE)),
      ("id" :> Str("zz")) @@ ("createdAt" :> DateOf(9)) @@ ("updatedAt" :> DateOf(8))
          @@ ("name" :> Str("Z")) }

\* update data that the partial form of UserSchema rejects: `active` is
\* declared a boolean
InvalidUpdateData == { ("active" :> Str("yes")) }

Unset == [v |-> 0, def |-> FALSE]
Given(n) == [v |-> n, def |-> TRUE]
NoWhere == [v |-> <<>>, def |-> FALSE]
Where(w) == [v |-> w, def |-> TRUE]

NoOptions == [where |-> NoWhere, limit |-> Unset, offset |-> Unset]

\* the findMany options of the callers
FindOptions ==
    { NoOptions,
      [where |-> Where("active" :> Bool(TRUE)), limit |-> Unset, offset |-> Unset],
      [where |-> NoWhere, limit |-> Given(1), offset |-> Given(1)] }

(***************************************************************************)
(* Calls                                                                   *)
(***************************************************************************)
NoDetails == <<"", 0>>

NoResult ==
    [schema |-> NoSchema, kind |-> "none", code |-> "", value |-> Null, list |-> <<>>,
     details |-> NoDetails]

\* the call resolved with a record (or null)
Resolved(maybe) == [NoResult EXCEPT !.kind = "ok", !.value = maybe]

\* the call resolved with an array of records
ResolvedList(records) == [NoResult EXCEPT !.kind = "ok", !.list = records]

\* the call threw BucketORMException({ code })
Thrown(code) == [NoResult EXCEPT !.kind = "error", !.code = code]

\* the call threw BucketORMException({ code, details: error })
ThrownWith(code, err) == [Thrown(code) EXCEPT !.details = err]

IdleCall ==
    [id |-> Undefined, records |-> <<>>, opts |-> NoOptions, data |-> <<>>,
     op |-> "none", pc |-> "idle", inst |-> NoInstance, arg |-> <<>>,
     pending |-> <<>>, keys |-> <<>>, listed |-> <<>>, result |-> NoResult,
     pre |-> <<>>, wasLive |-> FALSE, overlapped |-> FALSE, raced |-> FALSE,
     missed |-> <<>>, io |-> <<>>, failed |-> <<>>, during |-> {}]

\* the record of model t[1] with id t[2] was created and not deleted since
Live(t) == t \in DOMAIN life /\ life[t] = "live"

\* a caller may start a call when its previous call has returned
CanBegin(p) ==
    /\ p \in callers
    /\ call[p].pc = "idle"
    /\ ncalls < MaxCalls

InFlight(q) == call[q].pc \notin {"idle", "done"}

\* the bookkeeping of a call that starts: the storage as it is found, whether
\* the target is live, and which calls it overlaps
Started(p, op, inst, idv, arg, data, opts, pc, result) ==
    [q \in Procs |->
        IF q = p
        THEN [IdleCall EXCEPT
                !.op = op, !.pc = pc, !.inst = inst, !.id = idv, !.arg = arg,
                !.data = data,
                !.opts = opts, !.result = result, !.pre = store,
                !.wasLive = Live(<<inst.name, idv.s>>),
                !.overlapped = (pc # "done" /\ \E r \in Procs \ {p} : InFlight(r))]
        ELSE IF pc # "done" /\ InFlight(q)
             THEN [call[q] EXCEPT !.overlapped = TRUE]
             ELSE call[q]]


\* the books kept of a write: the record the call c uploaded (none for a
\* delete), the operation, and the instance it was called on
Written(c, record) == [rec |-> record, op |-> c.op, inst |-> c.inst]

\* the call of p returns
Returned(p, result) == [call EXCEPT ![p].pc = "done", ![p].result = result]

\* the key the pending read of p's call downloads: the key of its id, and in
\* the loading loop of findMany the key of the id derived from the listed key
ReadKey(p) ==
    IF call[p].op = "findMany"
    THEN GenerateKey(call[p].inst.name,
                     IdOfKey(ModelPrefix(call[p].inst.name), Head(call[p].keys)))
    ELSE GenerateKey(call[p].inst.name, call[p].id.s)

\* the storage calls p's call has issued, after one more: a "list" of the
\* model's prefix, or a "download", "upload" or "delete" of a key
Io(p, op) ==
    Append(call[p].io,
           <<op, IF op = "list" THEN ModelPrefix(call[p].inst.name) ELSE ReadKey(p)>>)

\* the call of p returns after the storage call `op`
ReturnedAfter(p, op, result) ==
    [call EXCEPT ![p].pc = "done", ![p].result = result, ![p].io = Io(p, op)]

\* the calls after the upload of `doc` to `key` by p: every findMany in flight
\* keeps in `during` the documents uploaded since it started
Observed(calls, p, key, doc) ==
    [q \in Procs |->
        IF q # p /\ calls[q].op = "findMany" /\ calls[q].pc \in {"list", "get"}
        THEN [calls[q] EXCEPT !.during = @ \cup {<<key, doc>>}]
        ELSE calls[q]]

RegistryVars == <<models, nextRef, lastGet, firstGet, firstSchema, built>>

\* the call of p ends with the exception its getRecord threw
GetFailed(p) ==
    /\ call' = ReturnedAfter(p, "download", Thrown(GetRecordError))
    /\ UNCHANGED <<store, now, callers, ncalls, life, lastPut, lastWrite, RegistryVars>>

(***************************************************************************)
(* BucketModel.create                                                      *)
(***************************************************************************)
\* (variant) a create that consults the schema of a schema-validating instance
BeginCreateChecked(p, inst, data) ==
    /\ CanBegin(p)
    /\ ncalls' = ncalls + 1
    /\ call' = IF \/ InvalidId(Field(data, "id"))
                  \/ inst.kind = "BucketSchemaModel" /\ ~ZodAccepts(inst.schema, data)
               THEN Started(p, "create", inst, Field(data, "id"), data, data,
                            NoOptions, "done", Thrown("INVALID_DATA"))
               ELSE Started(p, "create", inst, Field(data, "id"), data, data,
                            NoOptions, "get", NoResult)
    /\ UNCHANGED <<store, now, callers, life, lastPut, lastWrite, RegistryVars>>

BeginCreate(p, inst, data) ==
    /\ CanBegin(p)
    /\ ncalls' = ncalls + 1
    /\ call' = IF InvalidId(Field(data, "id"))
               THEN Started(p, "create", inst, Field(data, "id"), data, data,
                            NoOptions, "done", Thrown("INVALID_DATA"))
               ELSE Started(p, "create", inst, Field(data, "id"), data, data,
                            NoOptions, "get", NoResult)
    /\ UNCHANGED <<store, now, callers, life, lastPut, lastWrite, RegistryVars>>

\* the creates that have passed their existence check on the key of p's
\* create and have not written yet
Racers(p) ==
    {q \in Procs \ {p} :
        /\ call[q].op \in {"create", "createWithValidation"}
        /\ call[q].pc = "put"
        /\ GenerateKey(call[q].inst.name, call[q].id.s)
               = GenerateKey(call[p].inst.name, call[p].id.s)}

\* (variant) a clock that may be set back between two reads
ClockReadsSetBack == 0..MaxClock

\* the instants `new Date()` may return: the clock never goes backwards
ClockReads == now..MaxClock

\* (variant) a record without timestamps of the library's own
NewRecordBare(data, t) == data

\* (variant) a record in which the caller's data wins over the timestamps
NewRecordDataLast(data, t) ==
    Spread(("createdAt" :> DateOf(t)) @@ ("updatedAt" :> DateOf(t)), data)

\* { ...data, createdAt: now, updatedAt: now }
NewRecord(data, t) ==
    Spread(data, ("createdAt" :> DateOf(t)) @@ ("updatedAt" :> DateOf(t)))

\* the existence check returns with `existing`; unless it found a record, the
\* new record is built and its upload issued
CreateAfterCheck(p, existing) ==
    /\ call[p].op \in {"create", "createWithValidation"}
    /\ call[p].pc = "get"
    /\ LET c == call[p]
       IN  IF existing.found
           THEN /\ call' = ReturnedAfter(p, "download", Thrown("RECORD_ALREADY_EXISTS"))
                /\ now' = now
           ELSE \E t \in ClockReads :
                /\ now' = t
                /\ call' = [q \in Procs |->
                              IF q = p
                              THEN [c EXCEPT
                                      !.pc = "put",
                                      !.pending = NewRecord(c.data, t),
                                      !.raced = (Racers(p) # {}),
                                      !.io = Io(p, "download")]
                              ELSE IF q \in Racers(p)
                                   THEN [call[q] EXCEPT !.raced = TRUE]
                                   ELSE call[q]]
    /\ UNCHANGED <<store, callers, ncalls, life, lastPut, lastWrite, RegistryVars>>

\* (variant) a create that skips the existence check: an upsert
CreateGetUpsert(p) == CreateAfterCheck(p, Null)

CreateGet(p) ==
    IF GetRecordThrows(store, call[p].inst.name, call[p].id.s)
    THEN call[p].op \in {"create", "createWithValidation"} /\ call[p].pc = "get"
         /\ GetFailed(p)
    ELSE CreateAfterCheck(p, GetRecord(store, call[p].inst.name, call[p].id.s))

\* (variant) an upload that is refused when the key holds an object already
\* (a conditional write)
CreatePutIfAbsent(p) ==
    /\ call[p].op \in {"create", "createWithValidation"}
    /\ call[p].pc = "put"
    /\ LET c   == call[p]
           key == GenerateKey(c.inst.name, c.id.s)
       IN  IF key \in DOMAIN store
           THEN /\ call' = ReturnedAfter(p, "upload", Thrown("RECORD_ALREADY_EXISTS"))
                /\ UNCHANGED <<store, lastPut, lastWrite, life>>
           ELSE /\ store' = Upload(store, key, Stringify(c.pending))
                /\ lastPut' = Upload(lastPut, key, p)
                /\ lastWrite' = Upload(lastWrite, key, Written(c, c.pending))
                /\ life' = Upload(life, <<c.inst.name, c.id.s>>, "live")
                /\ call' = ReturnedAfter(p, "upload", Resolved(Some(c.pending)))
    /\ UNCHANGED <<now, callers, ncalls, RegistryVars>>

\* the upload completes and create returns the record
CreatePut(p) ==
    /\ call[p].op \in {"create", "createWithValidation"}
    /\ call[p].pc = "put"
    /\ LET c   == call[p]
           key == GenerateKey(c.inst.name, c.id.s)
       IN  /\ store' = Upload(store, key, Stringify(c.pending))
           /\ lastPut' = Upload(lastPut, key, p)
           /\ lastWrite' = Upload(lastWrite, key, Written(c, c.pending))
           /\ life' = Upload(life, <<c.inst.name, c.id.s>>, "live")
           /\ call' = Observed(ReturnedAfter(p, "upload", Resolved(Some(c.pending))),
                               p, key, Stringify(c.pending))
    /\ UNCHANGED <<now, callers, ncalls, RegistryVars>>

(***************************************************************************)
(* BucketModel.findOne                                                     *)
(***************************************************************************)
\* (variant) a findOne that refuses an empty id but not an id of another type
BeginFindOneFalsyOnly(p, inst, idv) ==
    /\ CanBegin(p)
    /\ ncalls' = ncalls + 1
    /\ call' = IF Falsy(idv)
               THEN Started(p, "findOne", inst, idv, <<>>, <<>>, NoOptions,
                            "done", Thrown("INVALID_DATA"))
               ELSE Started(p, "findOne", inst, idv, <<>>, <<>>, NoOptions,
                            "get", NoResult)
    /\ UNCHANGED <<store, now, callers, life, lastPut, lastWrite, RegistryVars>>

BeginFindOne(p, inst, idv) ==
    /\ CanBegin(p)
    /\ ncalls' = ncalls + 1
    /\ call' = IF InvalidId(idv)
               THEN Started(p, "findOne", inst, idv, <<>>, <<>>, NoOptions,
                            "done", Thrown("INVALID_DATA"))
               ELSE Started(p, "findOne", inst, idv, <<>>, <<>>, NoOptions,
                            "get", NoResult)
    /\ UNCHANGED <<store, now, callers, life, lastPut, lastWrite, RegistryVars>>

FindOneGet(p) ==
    /\ call[p].op = "findOne"
    /\ call[p].pc = "get"
    /\ IF GetRecordThrows(store, call[p].inst.name, call[p].id.s)
       THEN GetFailed(p)
       ELSE /\ call' = ReturnedAfter(p, "download",
                                     Resolved(GetRecord(store, call[p].inst.name,
                                                        call[p].id.s)))
            /\ UNCHANGED <<store, now, callers, ncalls, life, lastPut, lastWrite, RegistryVars>>

(***************************************************************************)
(* BucketModel.findMany                                                    *)
(***************************************************************************)
BeginFindMany(p, inst, opts) ==
    /\ CanBegin(p)
    /\ ncalls' = ncalls + 1
    /\ call' = Started(p, "findMany", inst, Undefined, <<>>, <<>>, opts, "list", NoResult)
    /\ UNCHANGED <<store, now, callers, life, lastPut, lastWrite, RegistryVars>>

\* the listing returns, in an order of the storage's choosing
FindManyList(p) ==
    /\ call[p].op = "findMany"
    /\ call[p].pc = "list"
    /\ \E order \in Orderings(ListKeys(store, ModelPrefix(call[p].inst.name))) :
          LET jsonKeys == SelectSeq(order, LAMBDA k : EndsWith(k, JsonSuffix))
          IN  call' = IF jsonKeys = <<>>
                      THEN ReturnedAfter(p, "list",
                                         ResolvedList(FinalRecords(<<>>, call[p].opts)))
                      ELSE [call EXCEPT ![p].pc = "get", ![p].keys = jsonKeys,
                                        ![p].listed = jsonKeys,
                                        ![p].io = Io(p, "list")]
    /\ UNCHANGED <<store, now, callers, ncalls, life, lastPut, lastWrite, RegistryVars>>

\* (variant) a loading loop that fails when a listed key is gone at its read
FindManyGetStrict(p) ==
    /\ call[p].op = "findMany"
    /\ call[p].pc = "get"
    /\ LET c       == call[p]
           id      == IdOfKey(ModelPrefix(c.inst.name), Head(c.keys))
           record  == GetRecord(store, c.inst.name, id)
           records == Append(c.records, record.rec)
       IN  IF GetRecordThrows(store, c.inst.name, id)
           THEN GetFailed(p)
           ELSE /\ call' = IF ~record.found
                           THEN [call EXCEPT
                                   ![p].pc = "done",
                                   ![p].missed = Append(c.missed, Head(c.keys)),
                                   ![p].io = Io(p, "download"),
                                   ![p].result = Thrown("RECORD_NOT_FOUND")]
                           ELSE IF Tail(c.keys) = <<>>
                           THEN [call EXCEPT
                                   ![p].pc = "done", ![p].keys = <<>>,
                                   ![p].records = records,
                                   ![p].io = Io(p, "download"),
                                   ![p].result = ResolvedList(FinalRecords(records, c.opts))]
                           ELSE [call EXCEPT ![p].keys = Tail(c.keys),
                                             ![p].io = Io(p, "download"),
                                             ![p].records = records]
                /\ UNCHANGED <<store, now, callers, ncalls, life, lastPut, lastWrite, RegistryVars>>

\* (variant) a loading loop that does not read the listed keys: it returns a
\* record made of the id derived from each key
FindManyGetIdsOnly(p) ==
    /\ call[p].op = "findMany"
    /\ call[p].pc = "get"
    /\ LET c       == call[p]
           id      == IdOfKey(ModelPrefix(c.inst.name), Head(c.keys))
           records == Append(c.records, ("id" :> Str(id)))
       IN  /\ call' = IF Tail(c.keys) = <<>>
                      THEN [call EXCEPT
                              ![p].pc = "done", ![p].keys = <<>>,
                              ![p].records = records,
                              ![p].io = Io(p, "download"),
                              ![p].result = ResolvedList(FinalRecords(records, c.opts))]
                      ELSE [call EXCEPT ![p].keys = Tail(c.keys),
                                        ![p].records = records,
                                        ![p].io = Io(p, "download")]
           /\ UNCHANGED <<store, now, callers, ncalls, life, lastPut, lastWrite, RegistryVars>>

\* one iteration of the loading loop: the read of the next listed key returns;
\* `missed` keeps the listed keys whose read found nothing
FindManyGet(p) ==
    /\ call[p].op = "findMany"
    /\ call[p].pc = "get"
    /\ LET c       == call[p]
           id      == IdOfKey(ModelPrefix(c.inst.name), Head(c.keys))
           record  == GetRecord(store, c.inst.name, id)
           records == IF record.found THEN Append(c.records, record.rec) ELSE c.records
           missed  == IF record.found THEN c.missed ELSE Append(c.missed, Head(c.keys))
       IN  IF GetRecordThrows(store, c.inst.name, id)
           THEN GetFailed(p)
           ELSE /\ call' = IF Tail(c.keys) = <<>>
                           THEN [call EXCEPT
                                   ![p].pc = "done", ![p].keys = <<>>,
                                   ![p].records = records, ![p].missed = missed,
                                   ![p].io = Io(p, "download"),
                                   ![p].result = ResolvedList(FinalRecords(records, c.opts))]
                           ELSE [call EXCEPT ![p].keys = Tail(c.keys),
                                             ![p].records = records,
                                             ![p].missed = missed,
                                             ![p].io = Io(p, "download")]
                /\ UNCHANGED <<store, now, callers, ncalls, life, lastPut, lastWrite, RegistryVars>>

(***************************************************************************)
(* BucketModel.update                                                      *)
(***************************************************************************)
BeginUpdate(p, inst, idv, data) ==
    /\ CanBegin(p)
    /\ ncalls' = ncalls + 1
    /\ call' = IF InvalidId(idv)
               THEN Started(p, "update", inst, idv, data, data, NoOptions,
                            "done", Thrown("INVALID_DATA"))
               ELSE Started(p, "update", inst, idv, data, data, NoOptions,
                            "get", NoResult)
    /\ UNCHANGED <<store, now, callers, life, lastPut, lastWrite, RegistryVars>>

\* (variant) a merge that leaves updatedAt as it was stored
MergeKeepUpdatedAt(existing, idv, data, t) ==
    Spread(Spread(existing, data),
           ("id" :> idv) @@ ("createdAt" :> Field(existing, "createdAt"))
               @@ ("updatedAt" :> Field(existing, "updatedAt")))

\* (variant) a replacement: the fields of the existing record are not carried
\* over
MergeReplace(existing, idv, data, t) ==
    Spread(data,
           ("id" :> idv) @@ ("createdAt" :> Field(existing, "createdAt"))
               @@ ("updatedAt" :> DateOf(t)))

\* (variant) a merge that spreads the caller's data last
MergeDataLast(existing, idv, data, t) ==
    Spread(Spread(existing,
                  ("id" :> idv) @@ ("createdAt" :> Field(existing, "createdAt"))
                      @@ ("updatedAt" :> DateOf(t))),
           data)

\* { ...existingRecord, ...data, id, createdAt: existingRecord.createdAt,
\*   updatedAt: new Date() }
MergeUpdate(existing, idv, data, t) ==
    Spread(Spread(existing, data),
           ("id" :> idv) @@ ("createdAt" :> Field(existing, "createdAt"))
               @@ ("updatedAt" :> DateOf(t)))

\* the read returns; the merged record is built and its upload issued
UpdateGet(p) ==
    /\ call[p].op \in {"update", "updateWithValidation"}
    /\ call[p].pc = "get"
    /\ LET c        == call[p]
           existing == GetRecord(store, c.inst.name, c.id.s)
       IN  IF GetRecordThrows(store, c.inst.name, c.id.s)
           THEN GetFailed(p)
           ELSE /\ IF ~existing.found
                   THEN /\ call' = ReturnedAfter(p, "download", Thrown("RECORD_NOT_FOUND"))
                        /\ now' = now
                   ELSE \E t \in ClockReads :
                        /\ now' = t
                        /\ call' = [call EXCEPT
                                      ![p].pc = "put",
                                      ![p].pending = MergeUpdate(existing.rec, c.id,
                                                                 c.data, t),
                                      ![p].io = Io(p, "download")]
                /\ UNCHANGED <<store, callers, ncalls, life, lastPut, lastWrite, RegistryVars>>

\* (variant) an update that stores the merged record at the key of the id
\* found in its data
UpdatePutAtDataId(p) ==
    /\ call[p].op \in {"update", "updateWithValidation"}
    /\ call[p].pc = "put"
    /\ LET c   == call[p]
           key == GenerateKey(c.inst.name, Field(Spread(("id" :> c.id), c.data), "id").s)
       IN  /\ store' = Upload(store, key, Stringify(c.pending))
           /\ lastPut' = Upload(lastPut, key, p)
           /\ lastWrite' = Upload(lastWrite, key, Written(c, c.pending))
           /\ call' = ReturnedAfter(p, "upload", Resolved(Some(c.pending)))
    /\ UNCHANGED <<now, callers, ncalls, life, RegistryVars>>

\* (variant) an update that uploads the merged record a second time
UpdatePutTwice(p) ==
    /\ call[p].op \in {"update", "updateWithValidation"}
    /\ call[p].pc = "put"
    /\ LET c   == call[p]
           key == GenerateKey(c.inst.name, c.id.s)
       IN  /\ store' = Upload(store, key, Stringify(c.pending))
           /\ lastPut' = Upload(lastPut, key, p)
           /\ lastWrite' = Upload(lastWrite, key, Written(c, c.pending))
           /\ call' = [call EXCEPT ![p].pc = "done",
                                   ![p].result = Resolved(Some(c.pending)),
                                   ![p].io = Append(Io(p, "upload"), <<"upload", key>>)]
    /\ UNCHANGED <<now, callers, ncalls, life, RegistryVars>>

\* (variant) an update that merges its data into the record as it is stored
\* when the upload arrives (an atomic read-modify-write)
UpdatePutMerged(p) ==
    /\ call[p].op \in {"update", "updateWithValidation"}
    /\ call[p].pc = "put"
    /\ LET c      == call[p]
           key    == GenerateKey(c.inst.name, c.id.s)
           merged == IF key \in DOMAIN store
                     THEN MergeUpdate(ParseRecord(store[key]), c.id, c.data,
                                      c.pending["updatedAt"].n)
                     ELSE c.pending
       IN  /\ store' = Upload(store, key, Stringify(merged))
           /\ lastPut' = Upload(lastPut, key, p)
           /\ lastWrite' = Upload(lastWrite, key, Written(c, merged))
           /\ call' = ReturnedAfter(p, "upload", Resolved(Some(merged)))
    /\ UNCHANGED <<now, callers, ncalls, life, RegistryVars>>

\* (variant) an upload that is refused when the key holds no object any more
UpdatePutIfPresent(p) ==
    /\ call[p].op \in {"update", "updateWithValidation"}
    /\ call[p].pc = "put"
    /\ LET c   == call[p]
           key == GenerateKey(c.inst.name, c.id.s)
       IN  IF key \notin DOMAIN store
           THEN /\ call' = ReturnedAfter(p, "upload", Thrown("RECORD_NOT_FOUND"))
                /\ UNCHANGED <<store, lastPut, lastWrite>>
           ELSE /\ store' = Upload(store, key, Stringify(c.pending))
                /\ lastPut' = Upload(lastPut, key, p)
                /\ lastWrite' = Upload(lastWrite, key, Written(c, c.pending))
                /\ call' = ReturnedAfter(p, "upload", Resolved(Some(c.pending)))
    /\ UNCHANGED <<now, callers, ncalls, life, RegistryVars>>

\* the upload completes and update returns the merged record
UpdatePut(p) ==
    /\ call[p].op \in {"update", "updateWithValidation"}
    /\ call[p].pc = "put"
    /\ LET c   == call[p]
           key == GenerateKey(c.inst.name, c.id.s)
       IN  /\ store' = Upload(store, key, Stringify(c.pending))
           /\ lastPut' = Upload(lastPut, key, p)
           /\ lastWrite' = Upload(lastWrite, key, Written(c, c.pending))
           /\ call' = Observed(ReturnedAfter(p, "upload", Resolved(Some(c.pending))),
                               p, key, Stringify(c.pending))
    /\ UNCHANGED <<now, callers, ncalls, life, RegistryVars>>

(***************************************************************************)
(* BucketModel.delete                                                      *)
(***************************************************************************)
BeginDelete(p, inst, idv) ==
    /\ CanBegin(p)
    /\ ncalls' = ncalls + 1
    /\ call' = IF InvalidId(idv)
               THEN Started(p, "delete", inst, idv, <<>>, <<>>, NoOptions,
                            "done", Thrown("INVALID_DATA"))
               ELSE Started(p, "delete", inst, idv, <<>>, <<>>, NoOptions,
                            "get", NoResult)
    /\ UNCHANGED <<store, now, callers, life, lastPut, lastWrite, RegistryVars>>

\* (variant) a delete that does not look whether the record exists
DeleteGetUnchecked(p) ==
    /\ call[p].op = "delete"
    /\ call[p].pc = "get"
    /\ call' = [call EXCEPT ![p].pc = "del"]
    /\ UNCHANGED <<store, now, callers, ncalls, life, lastPut, lastWrite, RegistryVars>>

DeleteGet(p) ==
    /\ call[p].op = "delete"
    /\ call[p].pc = "get"
    /\ IF GetRecordThrows(store, call[p].inst.name, call[p].id.s)
       THEN GetFailed(p)
       ELSE /\ call' = IF ~GetRecord(store, call[p].inst.name, call[p].id.s).found
                       THEN ReturnedAfter(p, "download", Thrown("RECORD_NOT_FOUND"))
                       ELSE [call EXCEPT ![p].pc = "del", ![p].io = Io(p, "download")]
            /\ UNCHANGED <<store, now, callers, ncalls, life, lastPut, lastWrite, RegistryVars>>

\* the updates that have read the record of p's delete and have not written
\* yet
Overtaken(p) ==
    {q \in Procs \ {p} :
        /\ call[q].op \in {"update", "updateWithValidation"}
        /\ call[q].pc = "put"
        /\ GenerateKey(call[q].inst.name, call[q].id.s)
               = GenerateKey(call[p].inst.name, call[p].id.s)}

\* the storage delete completes; `raced` marks the updates it overtook
DeleteDel(p) ==
    /\ call[p].op = "delete"
    /\ call[p].pc = "del"
    /\ LET c   == call[p]
           key == GenerateKey(c.inst.name, c.id.s)
       IN  /\ store' = DeleteObject(store, key)
           /\ lastPut' = DeleteObject(lastPut, key)
           /\ lastWrite' = Upload(lastWrite, key, Written(c, EmptyRec))
           /\ life' = Upload(life, <<c.inst.name, c.id.s>>, "deleted")
           /\ call' = [q \in Procs |->
                         IF q \in Overtaken(p)
                         THEN [call[q] EXCEPT !.raced = TRUE]
                         ELSE ReturnedAfter(p, "delete", Resolved(Null))[q]]
    /\ UNCHANGED <<now, callers, ncalls, RegistryVars>>

(***************************************************************************)
(* Storage failures: the send of the S3 client throws `err`.  The adapter  *)
(* wraps the error into BucketORMException({ code: 'STORAGE_ERROR',        *)
(* details: error }), except that download returns null on a 404; the      *)
(* exception leaves getRecord and the calling method as it is.             *)
(***************************************************************************)
\* the call of p ends with the exception the adapter threw from `op`
StorageFailed(p, op, err) ==
    [ReturnedAfter(p, op, ThrownWith(AdapterError, err)) EXCEPT
        ![p].failed = Append(call[p].failed, <<op, err>>)]

ListFails(p, err) ==
    /\ call[p].op = "findMany"
    /\ call[p].pc = "list"
    /\ call' = StorageFailed(p, "list", err)
    /\ UNCHANGED <<store, now, callers, ncalls, life, lastPut, lastWrite, RegistryVars>>

UploadFails(p, err) ==
    /\ call[p].pc = "put"
    /\ call' = StorageFailed(p, "upload", err)
    /\ UNCHANGED <<store, now, callers, ncalls, life, lastPut, lastWrite, RegistryVars>>

DeleteFails(p, err) ==
    /\ call[p].pc = "del"
    /\ call' = StorageFailed(p, "delete", err)
    /\ UNCHANGED <<store, now, callers, ncalls, life, lastPut, lastWrite, RegistryVars>>

\* a download fails: on a 404 the adapter returns null and the method goes on
\* as after the read of a missing key, on any other error it throws
DownloadFails(p, err) ==
    /\ call[p].pc = "get"
    /\ LET c      == call[p]
           failed == Append(c.failed, <<"download", err>>)
           io     == Io(p, "download")
       IN  IF ~DownloadReturnsNull(err)
           THEN call' = StorageFailed(p, "download", err) /\ now' = now
           ELSE IF c.op \in {"create", "createWithValidation"}
           THEN \E t \in ClockReads :
                   /\ now' = t
                   /\ call' = [call EXCEPT ![p].pc = "put",
                                           ![p].pending = NewRecord(c.data, t),
                                           ![p].io = io, ![p].failed = failed]
           ELSE /\ now' = now
                /\ call' =
                     IF c.op = "findOne"
                     THEN [ReturnedAfter(p, "download", Resolved(Null))
                              EXCEPT ![p].failed = failed]
                     ELSE IF c.op \in {"update", "updateWithValidation", "delete"}
                     THEN [ReturnedAfter(p, "download", Thrown("RECORD_NOT_FOUND"))
                              EXCEPT ![p].failed = failed]
                     ELSE IF Tail(c.keys) = <<>>
                     THEN [call EXCEPT
                             ![p].pc = "done", ![p].keys = <<>>,
                             ![p].missed = Append(c.missed, Head(c.keys)),
                             ![p].io = io, ![p].failed = failed,
                             ![p].result = ResolvedList(FinalRecords(c.records, c.opts))]
                     ELSE [call EXCEPT
                             ![p].keys = Tail(c.keys),
                             ![p].missed = Append(c.missed, Head(c.keys)),
                             ![p].io = io, ![p].failed = failed]
    /\ UNCHANGED <<store, callers, ncalls, life, lastPut, lastWrite, RegistryVars>>

(***************************************************************************)
(* BucketSchemaModel                                                       *)
(***************************************************************************)
\* (variant) createWithValidation that checks the data and then hands the raw
\* data, not the parsed output, to create
BeginCreateValidatedRaw(p, inst, data) ==
    /\ CanBegin(p)
    /\ inst.kind = "BucketSchemaModel"
    /\ ncalls' = ncalls + 1
    /\ call' = IF ~ZodAccepts(inst.schema, data) \/ InvalidId(Field(data, "id"))
               THEN Started(p, "createWithValidation", inst, Field(data, "id"),
                            data, <<>>, NoOptions, "done", Thrown("INVALID_DATA"))
               ELSE Started(p, "createWithValidation", inst, Field(data, "id"),
                            data, data, NoOptions, "get", NoResult)
    /\ UNCHANGED <<store, now, callers, life, lastPut, lastWrite, RegistryVars>>

\* (variant) createWithValidation without the schema gate
BeginCreateUnvalidated(p, inst, data) ==
    /\ CanBegin(p)
    /\ inst.kind = "BucketSchemaModel"
    /\ ncalls' = ncalls + 1
    /\ call' = IF InvalidId(Field(data, "id"))
               THEN Started(p, "createWithValidation", inst, Field(data, "id"),
                            data, <<>>, NoOptions, "done", Thrown("INVALID_DATA"))
               ELSE Started(p, "createWithValidation", inst, Field(data, "id"),
                            data, data, NoOptions, "get", NoResult)
    /\ UNCHANGED <<store, now, callers, life, lastPut, lastWrite, RegistryVars>>

\* schema.parse(data), then this.create({ data: validatedData }) up to its
\* first await
BeginCreateWithValidation(p, inst, data) ==
    /\ CanBegin(p)
    /\ inst.kind = "BucketSchemaModel"
    /\ ncalls' = ncalls + 1
    /\ LET validated == ZodOutput(inst.schema, data)
           idv       == Field(validated, "id")
       IN  call' = IF ~ZodAccepts(inst.schema, data) \/ InvalidId(idv)
                   THEN Started(p, "createWithValidation", inst, Field(data, "id"),
                                data, <<>>, NoOptions, "done", Thrown("INVALID_DATA"))
                   ELSE Started(p, "createWithValidation", inst, idv,
                                data, validated, NoOptions, "get", NoResult)
    /\ UNCHANGED <<store, now, callers, life, lastPut, lastWrite, RegistryVars>>

\* (variant) updateWithValidation without the schema gate
BeginUpdateUnvalidated(p, inst, idv, data) ==
    /\ CanBegin(p)
    /\ inst.kind = "BucketSchemaModel"
    /\ ncalls' = ncalls + 1
    /\ call' = IF InvalidId(idv)
               THEN Started(p, "updateWithValidation", inst, idv,
                            data, <<>>, NoOptions, "done", Thrown("INVALID_DATA"))
               ELSE Started(p, "updateWithValidation", inst, idv,
                            data, data, NoOptions, "get", NoResult)
    /\ UNCHANGED <<store, now, callers, life, lastPut, lastWrite, RegistryVars>>

\* schema.partial().parse(data), then this.update(id, { data: validatedData })
\* up to its first await
BeginUpdateWithValidation(p, inst, idv, data) ==
    /\ CanBegin(p)
    /\ inst.kind = "BucketSchemaModel"
    /\ ncalls' = ncalls + 1
    /\ call' = IF ~ZodPartialAccepts(inst.schema, data) \/ InvalidId(idv)
               THEN Started(p, "updateWithValidation", inst, idv,
                            data, <<>>, NoOptions, "done", Thrown("INVALID_DATA"))
               ELSE Started(p, "updateWithValidation", inst, idv,
                            data, ZodOutput(inst.schema, data), NoOptions, "get", NoResult)
    /\ UNCHANGED <<store, now, callers, life, lastPut, lastWrite, RegistryVars>>

\* (variant) a validateData that saves the data it has accepted
ValidateDataAndSave(p, inst, data) ==
    /\ CanBegin(p)
    /\ inst.kind = "BucketSchemaModel"
    /\ ncalls' = ncalls + 1
    /\ call' = IF ZodAccepts(inst.schema, data)
               THEN Started(p, "validateData", inst, Field(data, "id"), data, <<>>,
                            NoOptions, "done", Resolved(Some(ZodOutput(inst.schema, data))))
               ELSE Started(p, "validateData", inst, Field(data, "id"), data, <<>>,
                            NoOptions, "done", Thrown("INVALID_DATA"))
    /\ store' = IF ZodAccepts(inst.schema, data)
                THEN Upload(store, GenerateKey(inst.name, Field(data, "id").s),
                            Stringify(ZodOutput(inst.schema, data)))
                ELSE store
    /\ UNCHANGED <<now, callers, life, lastPut, lastWrite, RegistryVars>>

\* schema.parse(data): synchronous, the storage is not touched
ValidateData(p, inst, data) ==
    /\ CanBegin(p)
    /\ inst.kind = "BucketSchemaModel"
    /\ ncalls' = ncalls + 1
    /\ call' = IF ZodAccepts(inst.schema, data)
               THEN Started(p, "validateData", inst, Field(data, "id"), data, <<>>,
                            NoOptions, "done", Resolved(Some(ZodOutput(inst.schema, data))))
               ELSE Started(p, "validateData", inst, Field(data, "id"), data, <<>>,
                            NoOptions, "done", Thrown("INVALID_DATA"))
    /\ UNCHANGED <<store, now, callers, life, lastPut, lastWrite, RegistryVars>>

GetSchema(p, inst) ==
    /\ CanBegin(p)
    /\ inst.kind = "BucketSchemaModel"
    /\ ncalls' = ncalls + 1
    /\ call' = Started(p, "getSchema", inst, Undefined, <<>>, <<>>, NoOptions, "done",
                       [NoResult EXCEPT !.kind = "ok", !.schema = inst.schema])
    /\ UNCHANGED <<store, now, callers, life, lastPut, lastWrite, RegistryVars>>

(***************************************************************************)
(* BucketORM: the instance cache                                           *)
(***************************************************************************)
RegistryNames == {"user", "user_schema"}

OtherSchema == ("id" :> "string")

Schemas == {UserSchema, OtherSchema}

NoGet == [schema |-> NoSchema, name |-> "", fn |-> "none", ret |-> NoInstance,
          constructed |-> FALSE]

ModelVars == <<store, now, call, callers, ncalls, life, lastPut, lastWrite>>

\* the key under which model(modelName) caches
ModelCacheKey(modelName) == modelName

\* the key under which schemaModel(modelName, .) caches
SchemaCacheKey(modelName) == modelName \o "_schema"

\* the books kept of a call fn(modelName) that returned ret
Noted(fn, modelName, ret, constructed) ==
    /\ firstGet' = IF <<fn, modelName>> \in DOMAIN firstGet
                   THEN firstGet
                   ELSE Upload(firstGet, <<fn, modelName>>, ret)
    /\ built' = IF constructed
                THEN Upload(built, <<ret.kind, ret.name>>,
                            IF <<ret.kind, ret.name>> \in DOMAIN built
                            THEN built[<<ret.kind, ret.name>>] + 1
                            ELSE 1)
                ELSE built

\* (variant) model(modelName) without the cache lookup: every call constructs
GetModelUncached(modelName) ==
    /\ LET key == ModelCacheKey(modelName)
           new == NewBucketModel(modelName, nextRef)
       IN  /\ models' = Upload(models, key, new)
           /\ nextRef' = nextRef + 1
           /\ lastGet' = [schema |-> NoSchema, name |-> modelName, fn |-> "model",
                          ret |-> new, constructed |-> TRUE]
           /\ Noted("model", modelName, new, TRUE)
    /\ UNCHANGED <<ModelVars, firstSchema>>

\* BucketORM.model(modelName)
GetModel(modelName) ==
    /\ LET key == ModelCacheKey(modelName)
           new == NewBucketModel(modelName, nextRef)
       IN  IF key \in DOMAIN models
           THEN /\ lastGet' = [schema |-> NoSchema, name |-> modelName, fn |-> "model",
                               ret |-> models[key], constructed |-> FALSE]
                /\ Noted("model", modelName, models[key], FALSE)
                /\ UNCHANGED <<models, nextRef>>
           ELSE /\ models' = Upload(models, key, new)
                /\ nextRef' = nextRef + 1
                /\ lastGet' = [schema |-> NoSchema, name |-> modelName, fn |-> "model",
                               ret |-> new, constructed |-> TRUE]
                /\ Noted("model", modelName, new, TRUE)
    /\ UNCHANGED <<ModelVars, firstSchema>>

\* (variant) a schemaModel that keeps the schema of the instance it
\* constructs in the bucket
GetSchemaModelStored(modelName, schema) ==
    /\ LET key == SchemaCacheKey(modelName)
           new == NewBucketSchemaModel(modelName, schema, nextRef)
       IN  IF key \in DOMAIN models
           THEN /\ lastGet' = [schema |-> schema, name |-> modelName, fn |-> "schemaModel",
                               ret |-> models[key], constructed |-> FALSE]
                /\ Noted("schemaModel", modelName, models[key], FALSE)
                /\ UNCHANGED <<models, nextRef, store>>
           ELSE /\ models' = Upload(models, key, new)
                /\ nextRef' = nextRef + 1
                /\ lastGet' = [schema |-> schema, name |-> modelName, fn |-> "schemaModel",
                               ret |-> new, constructed |-> TRUE]
                /\ Noted("schemaModel", modelName, new, TRUE)
                /\ store' = Upload(store, GenerateKey(modelName, "_schema"),
                                   ("id" :> Str("_schema")))
    /\ firstSchema' = IF modelName \in DOMAIN firstSchema
                      THEN firstSchema
                      ELSE Upload(firstSchema, modelName, schema)
    /\ UNCHANGED <<now, call, callers, ncalls, life, lastPut, lastWrite>>

\* BucketORM.schemaModel(modelName, { schema })
GetSchemaModel(modelName, schema) ==
    /\ LET key == SchemaCacheKey(modelName)
           new == NewBucketSchemaModel(modelName, schema, nextRef)
       IN  IF key \in DOMAIN models
           THEN /\ lastGet' = [schema |-> schema, name |-> modelName, fn |-> "schemaModel",
                               ret |-> models[key], constructed |-> FALSE]
                /\ Noted("schemaModel", modelName, models[key], FALSE)
                /\ UNCHANGED <<models, nextRef>>
           ELSE /\ models' = Upload(models, key, new)
                /\ nextRef' = nextRef + 1
                /\ lastGet' = [schema |-> schema, name |-> modelName, fn |-> "schemaModel",
                               ret |-> new, constructed |-> TRUE]
                /\ Noted("schemaModel", modelName, new, TRUE)
    /\ firstSchema' = IF modelName \in DOMAIN firstSchema
                      THEN firstSchema
                      ELSE Upload(firstSchema, modelName, schema)
    /\ UNCHANGED ModelVars

(***************************************************************************)
(* The caller takes the result of a returned call                          *)
(***************************************************************************)
Return(p) ==
    /\ call[p].pc = "done"
    /\ call' = [call EXCEPT ![p] = IdleCall]
    /\ UNCHANGED <<store, now, callers, ncalls, life, lastPut, lastWrite, RegistryVars>>

(***************************************************************************)
(* Specifications                                                          *)
(***************************************************************************)
Quiet ==
    /\ now = 0
    /\ call = [p \in Procs |-> IdleCall]
    /\ models = <<>>
    /\ nextRef = 1
    /\ lastGet = NoGet
    /\ firstGet = <<>>
    /\ firstSchema = <<>>
    /\ built = <<>>

\* the steps that follow the start of a call
Steps(p) ==
    \/ CreateGet(p)
    \/ CreatePut(p)
    \/ FindOneGet(p)
    \/ FindManyList(p)
    \/ FindManyGet(p)
    \/ UpdateGet(p)
    \/ UpdatePut(p)
    \/ DeleteGet(p)
    \/ DeleteDel(p)
    \/ Return(p)

(* One caller, an empty bucket: every call returns before the next starts. *)
SeqInit ==
    /\ Quiet
    /\ store = <<>>
    /\ life = <<>>
    /\ lastPut = <<>>
    /\ lastWrite = <<>>
    /\ ncalls = 0
    /\ callers = {1}

\* the records beside record "a" of model "m": the caller creates them with
\* one payload, reads and deletes them, and does not update them
SideTargets == {<<PlainM, Str(".jsona")>>, <<PlainMN, Str("a")>>}

SeqCreateData(t) ==
    IF t \in SideTargets
    THEN {("id" :> t[2]) @@ ("name" :> Str("A")) @@ ("active" :> Bool(TRUE))}
    ELSE CreateData(t[2])

\* through the schema-validating instance the caller also passes update data
\* that the schema rejects
SeqUpdateData(t) ==
    IF t[1].kind = "BucketSchemaModel"
    THEN UpdateData \cup InvalidUpdateData
    ELSE UpdateData

SeqNext ==
    \E p \in Procs :
        \/ \E t \in CreateTargets : \E data \in SeqCreateData(t) :
            \/ BeginCreate(p, t[1], data)
            \/ BeginCreateWithValidation(p, t[1], data)
            \/ ValidateData(p, t[1], data)
        \/ \E t \in Targets :
            \/ BeginFindOne(p, t[1], t[2])
            \/ BeginDelete(p, t[1], t[2])
        \/ \E t \in Targets \ SideTargets : \E data \in SeqUpdateData(t) :
            \/ BeginUpdate(p, t[1], t[2], data)
            \/ BeginUpdateWithValidation(p, t[1], t[2], data)
        \/ \E inst \in Instances :
            \/ \E opts \in FindOptions : BeginFindMany(p, inst, opts)
            \/ GetSchema(p, inst)
        \/ Steps(p)

SeqSpec == SeqInit /\ [][SeqNext]_vars

(* Two callers whose calls overlap, on a bucket that earlier creates have  *)
(* populated.  The callers create, update and read record "a" of model    *)
(* "m", delete "a" or "b", and list the model.                             *)
\* the object create(data) stores when the clock reads 0
CreatedAtZero(data) ==
    Stringify(Spread(data, ("createdAt" :> DateOf(0)) @@ ("updatedAt" :> DateOf(0))))

ConcTargets == {<<PlainM, Str("a")>>, <<PlainM, Str("b")>>}

\* the payloads of the overlapping creates
ConcCreateData(idv) ==
    { ("id" :> idv) @@ ("name" :> Str("A")) @@ ("active" :> Bool(TRUE)),
      ("id" :> idv) @@ ("name" :> Str("Z")) @@ ("active" :> Bool(FALSE)) }

\* the storage key of a target
KeyOf(t) == GenerateKey(t[1].name, t[2].s)

\* the bucket after create(assign[t]) through every target t of assign, all
\* at instant 0
BucketWith(assign) ==
    [k \in {KeyOf(t) : t \in DOMAIN assign} |->
        CreatedAtZero(assign[CHOOSE t \in DOMAIN assign : KeyOf(t) = k])]

\* the buckets that creates of the payloads data[id] through targets of T leave
BucketsOver(T, data) ==
    LET all == UNION {data[t[2]] : t \in T}
    IN  { BucketWith(a) :
            a \in UNION { {f \in [S -> all] : \A t \in S : f[t] \in data[t[2]]}
                          : S \in SUBSET T } }

\* the <<model name, id>> whose records make up the bucket st
Holders(st, T) == {<<t[1].name, t[2].s>> : t \in {u \in T : KeyOf(u) \in DOMAIN st}}

FullData(idv) == {("id" :> idv) @@ ("name" :> Str("A")) @@ ("active" :> Bool(TRUE))}

\* the buckets the overlapping calls may find: model "m/n" holds a record, and
\* model "m" any of its two
ConcBuckets ==
    { b \in BucketsOver(ConcTargets \cup {<<PlainMN, Str("a")>>},
                        [idv \in {Str("a"), Str("b")} |-> FullData(idv)]) :
        KeyOf(<<PlainMN, Str("a")>>) \in DOMAIN b }

ConcInit ==
    /\ Quiet
    /\ store \in ConcBuckets
    /\ life = [t \in Holders(store, ConcTargets \cup {<<PlainMN, Str("a")>>}) |-> "live"]
    /\ lastPut = [k \in DOMAIN store |-> 1]
    /\ lastWrite = <<>>
    /\ ncalls = 1
    /\ callers = Procs

ConcNext ==
    \E p \in Procs :
        \/ \E data \in ConcCreateData(Str("a")) : BeginCreate(p, PlainM, data)
        \/ \E data \in UpdateData : BeginUpdate(p, PlainM, Str("a"), data)
        \/ BeginFindOne(p, PlainM, Str("a"))
        \/ \E t \in ConcTargets : BeginDelete(p, t[1], t[2])
        \/ BeginFindMany(p, PlainM, NoOptions)
        \/ Steps(p)

ConcSpec == ConcInit /\ [][ConcNext]_vars

(* A findMany of model "m" by one caller while the other creates, updates   *)
(* and deletes the records "a" and "b" the model holds.                     *)
IsolationInit ==
    /\ Quiet
    /\ store = BucketWith([t \in ConcTargets |->
                              ("id" :> t[2]) @@ ("name" :> Str("A")) @@ ("active" :> Bool(TRUE))])
    /\ life = [t \in Holders(store, ConcTargets) |-> "live"]
    /\ lastPut = [k \in DOMAIN store |-> 2]
    /\ lastWrite = <<>>
    /\ ncalls = 0
    /\ callers = Procs

IsolationNext ==
    \/ BeginFindMany(1, PlainM, NoOptions)
    \/ FindManyList(1)
    \/ FindManyGet(1)
    \/ \E data \in ConcCreateData(Str("a")) : BeginCreate(2, PlainM, data)
    \/ \E data \in UpdateData : BeginUpdate(2, PlainM, Str("a"), data)
    \/ \E t \in ConcTargets : BeginDelete(2, t[1], t[2])
    \/ CreateGet(2)
    \/ CreatePut(2)
    \/ UpdateGet(2)
    \/ UpdatePut(2)
    \/ DeleteGet(2)
    \/ DeleteDel(2)
    \/ Return(2)

IsolationSpec == IsolationInit /\ [][IsolationNext]_vars

(* findMany on its own: one call, every combination of options, on a      *)
(* bucket that earlier creates have populated.                             *)
QueryTargets == {<<PlainM, Str("a")>>, <<PlainM, Str("b")>>, <<PlainM, Str("c")>>}

QueryWheres ==
    { NoWhere,
      Where("active" :> Bool(TRUE)),
      Where("active" :> Bool(FALSE)),
      Where(("name" :> Str("A")) @@ ("active" :> Bool(TRUE))),
      Where(("name" :> Str("A")) @@ ("active" :> Bool(FALSE))) }

\* offset and limit range over -1 .. MaxIndex, or are not given
MaxIndex == 3

QueryIndexes == {Unset} \cup {Given(n) : n \in -1..MaxIndex}

QueryOptions == [where : QueryWheres, offset : QueryIndexes, limit : QueryIndexes]

QueryInit ==
    /\ now = 0
    /\ models = <<>>
    /\ nextRef = 1
    /\ lastGet = NoGet
    /\ firstGet = <<>>
    /\ firstSchema = <<>>
    /\ built = <<>>
    /\ store \in BucketsOver(QueryTargets,
                             [idv \in {t[2] : t \in QueryTargets} |-> CreateData(idv)])
    /\ life = [t \in Holders(store, QueryTargets) |-> "live"]
    /\ lastPut = [k \in DOMAIN store |-> 1]
    /\ lastWrite = <<>>
    /\ ncalls = 1
    /\ callers = {1}
    /\ \E opts \in QueryOptions :
          call = [p \in Procs |->
                    IF p = 1
                    THEN [IdleCall EXCEPT !.op = "findMany", !.pc = "list",
                                          !.inst = PlainM, !.opts = opts, !.pre = store]
                    ELSE IdleCall]

QueryNext == \E p \in Procs : FindManyList(p) \/ FindManyGet(p)

QuerySpec == QueryInit /\ [][QueryNext]_vars

(* One caller on a bucket in which another client has left an object that *)
(* is not JSON at the key of record "a" of model "m".                      *)
CorruptTargets == {<<PlainM, Str("a")>>, <<PlainM, Str("b")>>}

CorruptBuckets ==
    { Upload(b, KeyOf(<<PlainM, Str("a")>>), NotJSON) :
        b \in BucketsOver({<<PlainM, Str("b")>>}, [idv \in {Str("b")} |-> FullData(idv)]) }

CorruptInit ==
    /\ Quiet
    /\ store \in CorruptBuckets
    /\ life = [t \in Holders(store, CorruptTargets) |-> "live"]
    /\ lastPut = [k \in DOMAIN store |-> 1]
    /\ lastWrite = <<>>
    /\ ncalls = 0
    /\ callers = {1}

CorruptNext ==
    \E p \in Procs :
        \/ \E t \in CorruptTargets :
            \/ \E data \in ConcCreateData(t[2]) : BeginCreate(p, t[1], data)
            \/ BeginFindOne(p, t[1], t[2])
            \/ BeginDelete(p, t[1], t[2])
            \/ \E data \in UpdateData : BeginUpdate(p, t[1], t[2], data)
        \/ BeginFindMany(p, PlainM, NoOptions)
        \/ Steps(p)

CorruptSpec == CorruptInit /\ [][CorruptNext]_vars

(* findMany with a where clause on a number field: one call on a bucket of *)
(* products with prices below and above 500.                               *)
Products == NewBucketModel("products", 0)

ProductTargets == {<<Products, Str("p1")>>, <<Products, Str("p2")>>, <<Products, Str("p3")>>}

ProductData(idv) ==
    { ("id" :> idv) @@ ("name" :> Str("Laptop")) @@ ("price" :> Num(price)) :
        price \in {400, 600} }

\* where: { price: 600 } and where: { price: { gt: 500 } }
CompareOptions ==
    { [where |-> Where("price" :> Num(600)), limit |-> Unset, offset |-> Unset],
      [where |-> Where("price" :> Gt(500)), limit |-> Unset, offset |-> Unset] }

CompareInit ==
    /\ now = 0
    /\ models = <<>>
    /\ nextRef = 1
    /\ lastGet = NoGet
    /\ firstGet = <<>>
    /\ firstSchema = <<>>
    /\ built = <<>>
    /\ store \in BucketsOver(ProductTargets,
                             [idv \in {t[2] : t \in ProductTargets} |-> ProductData(idv)])
    /\ life = [t \in Holders(store, ProductTargets) |-> "live"]
    /\ lastPut = [k \in DOMAIN store |-> 1]
    /\ lastWrite = <<>>
    /\ ncalls = 1
    /\ callers = {1}
    /\ \E opts \in CompareOptions :
          call = [p \in Procs |->
                    IF p = 1
                    THEN [IdleCall EXCEPT !.op = "findMany", !.pc = "list",
                                          !.inst = Products, !.opts = opts, !.pre = store]
                    ELSE IdleCall]

CompareNext == \E p \in Procs : FindManyList(p) \/ FindManyGet(p)

CompareSpec == CompareInit /\ [][CompareNext]_vars

(* One caller on a bucket whose storage calls may fail.                    *)
FaultTargets == {<<PlainM, Str("a")>>, <<PlainM, Str("b")>>}

FaultInit ==
    /\ Quiet
    /\ store \in BucketsOver(FaultTargets, [idv \in {Str("a"), Str("b")} |-> FullData(idv)])
    /\ life = [t \in Holders(store, FaultTargets) |-> "live"]
    /\ lastPut = [k \in DOMAIN store |-> 1]
    /\ lastWrite = <<>>
    /\ ncalls = 0
    /\ callers = {1}

FaultNext ==
    \E p \in Procs :
        \/ \E data \in FullData(Str("a")) : BeginCreate(p, PlainM, data)
        \/ \E data \in UpdateData : BeginUpdate(p, PlainM, Str("a"), data)
        \/ BeginFindOne(p, PlainM, Str("a"))
        \/ BeginDelete(p, PlainM, Str("a"))
        \/ BeginFindMany(p, PlainM, NoOptions)
        \/ Steps(p)
        \/ \E err \in S3Errors :
            \/ ListFails(p, err)
            \/ DownloadFails(p, err)
            \/ UploadFails(p, err)
            \/ DeleteFails(p, err)

FaultSpec == FaultInit /\ [][FaultNext]_vars

(* One caller that only reads: findOne, findMany and getSchema on a bucket  *)
(* that earlier creates have populated and in which the object of "a" may  *)
(* be unreadable, with storage failures, and model / schemaModel calls at   *)
(* any moment.                                                             *)
ReadTargets == {<<PlainM, Str("a")>>, <<PlainM, Str("")>>, <<SchemaM, Str("a")>>}

ReadBuckets ==
    CorruptBuckets
        \cup BucketsOver(FaultTargets, [idv \in {Str("a"), Str("b")} |-> FullData(idv)])

ReadInit ==
    /\ Quiet
    /\ store \in ReadBuckets
    /\ life = [t \in Holders(store, FaultTargets) |-> "live"]
    /\ lastPut = [k \in DOMAIN store |-> 1]
    /\ lastWrite = <<>>
    /\ ncalls = 0
    /\ callers = {1}

ReadNext ==
    \/ \E p \in Procs :
        \/ \E t \in ReadTargets : BeginFindOne(p, t[1], t[2])
        \/ \E inst \in {PlainM, SchemaM} : BeginFindMany(p, inst, NoOptions)
        \/ GetSchema(p, SchemaM)
        \/ FindOneGet(p)
        \/ FindManyList(p)
        \/ FindManyGet(p)
        \/ Return(p)
        \/ \E err \in S3Errors :
            \/ ListFails(p, err)
            \/ DownloadFails(p, err)
    \/ GetModel("m")
    \/ \E schema \in Schemas : GetSchemaModel("m", schema)

ReadSpec == ReadInit /\ [][ReadNext]_vars

(* The instance cache on its own.                                          *)
RegistryNext ==
    \/ \E n \in RegistryNames : GetModel(n)
    \/ \E n \in RegistryNames : \E s \in Schemas : GetSchemaModel(n, s)

RegistryInit ==
    /\ Quiet
    /\ store = <<>>
    /\ life = <<>>
    /\ lastPut = <<>>
    /\ lastWrite = <<>>
    /\ ncalls = 0
    /\ callers = {}

RegistrySpec == RegistryInit /\ [][RegistryNext]_vars

(***************************************************************************)
(* Properties                                                              *)
(***************************************************************************)
\* the calls that have returned
Done(p) == call[p].pc = "done"

\* the storage key the call of p addresses
CallKey(p) == GenerateKey(call[p].inst.name, call[p].id.s)

\* C1: in a sequential history, a create for an id that was created on the
\* model and not deleted since fails with RECORD_ALREADY_EXISTS whatever its
\* payload, and leaves the bucket as it found it.
C1_CreateUniqueness ==
    \A p \in Procs :
        (call[p].op = "create" /\ Done(p) /\ call[p].wasLive)
            => /\ call[p].result = Thrown("RECORD_ALREADY_EXISTS")
               /\ store = call[p].pre

\* a second create with another payload was refused, and the first record stays
C1_Witness ==
    \E p \in Procs :
        /\ call[p].op = "create" /\ Done(p) /\ call[p].wasLive
        /\ call[p].result.code = "RECORD_ALREADY_EXISTS"
        /\ CallKey(p) \in DOMAIN store
        /\ Field(store[CallKey(p)], "name") # Field(call[p].arg, "name")

\* C2: two overlapping creates of one id on one model that both passed the
\* existence check before either wrote both succeed: neither fails with
\* RECORD_ALREADY_EXISTS, and the bucket holds the record uploaded last.
C2_CreateRaceLastWriteWins ==
    \A p, q \in Procs :
        (/\ p # q
         /\ call[p].op = "create" /\ call[q].op = "create"
         /\ call[p].raced /\ call[q].raced
         /\ CallKey(p) = CallKey(q))
            => /\ call[p].result.code # "RECORD_ALREADY_EXISTS"
               /\ (Done(p) /\ Done(q))
                    => /\ call[p].result = Resolved(Some(call[p].pending))
                       /\ call[q].result = Resolved(Some(call[q].pending))
                       /\ CallKey(p) \in DOMAIN store
                       /\ lastPut[CallKey(p)] \in {p, q}
                       /\ store[CallKey(p)] = Stringify(call[lastPut[CallKey(p)]].pending)

\* both racing creates returned their own, different, records; the bucket holds
\* the one of the later upload and the other is lost
C2_Witness ==
    \E p, q \in Procs :
        /\ p # q
        /\ call[p].op = "create" /\ call[q].op = "create"
        /\ call[p].raced /\ call[q].raced
        /\ CallKey(p) = CallKey(q)
        /\ Done(p) /\ Done(q)
        /\ call[p].result.kind = "ok" /\ call[q].result.kind = "ok"
        /\ lastPut[CallKey(p)] = q
        /\ store[CallKey(p)] = Stringify(call[q].pending)
        /\ store[CallKey(p)] # Stringify(call[p].pending)

\* the fields an update forces whatever the payload says
ForcedOnUpdate == {"id", "createdAt", "updatedAt"}

\* the record the call of p returned, and the one the bucket holds for it
ReturnedRecord(p) == call[p].result.value.rec
StoredRecord(p) == ParseRecord(store[CallKey(p)])

\* a successful update returned and stored a record with the id passed to
\* update, the createdAt stored before, and the supplied value in each field
\* of the payload other than those of `except`
UpdateKeeps(p, except) ==
    LET before == ParseRecord(call[p].pre[CallKey(p)])
    IN  /\ CallKey(p) \in DOMAIN store
        /\ \A r \in {ReturnedRecord(p), StoredRecord(p)} :
            /\ Field(r, "id") = call[p].id
            /\ Field(r, "createdAt") = Field(before, "createdAt")
            /\ \A f \in DOMAIN call[p].arg \ except :
                    Field(r, f) = call[p].arg[f]

SucceededUpdate(p) ==
    call[p].op = "update" /\ Done(p) /\ call[p].result.kind = "ok"

\* C3 (as stated): a successful update returns and stores a record whose id
\* is the id passed to update and whose createdAt is the one stored before,
\* while every other supplied field takes the supplied value.
C3_UpdateEveryOtherField ==
    \A p \in Procs : SucceededUpdate(p) => UpdateKeeps(p, {"id", "createdAt"})

\* C3 (amended): a successful update returns and stores a record whose id is
\* the id passed to update and whose createdAt is the one stored before, while
\* every supplied field other than id, createdAt and updatedAt takes the
\* supplied value; a supplied updatedAt is replaced by the time of the update.
C3_UpdateKeepsIdAndCreatedAt ==
    \A p \in Procs : SucceededUpdate(p) => UpdateKeeps(p, ForcedOnUpdate)

\* an update whose payload carried its own id, createdAt and name succeeded
C3_Witness ==
    \E p \in Procs :
        /\ SucceededUpdate(p)
        /\ {"id", "createdAt", "name"} \subseteq DOMAIN call[p].arg
        /\ call[p].arg["id"] # call[p].id
        /\ Field(ReturnedRecord(p), "name") = call[p].arg["name"]
        /\ Field(ReturnedRecord(p), "name") # Field(ParseRecord(call[p].pre[CallKey(p)]), "name")
        /\ Field(ReturnedRecord(p), "createdAt") # call[p].arg["createdAt"]

\* C4: for an id never created, or created and then deleted, findOne returns
\* null without failing, while update and delete fail with RECORD_NOT_FOUND
\* and leave the bucket unchanged.
C4_NotFoundSymmetry ==
    \A p \in Procs :
        (Done(p) /\ ~InvalidId(call[p].id) /\ ~call[p].wasLive)
            => /\ call[p].op = "findOne" => call[p].result = Resolved(Null)
               /\ call[p].op \in {"update", "delete"}
                    => /\ call[p].result = Thrown("RECORD_NOT_FOUND")
                       /\ store = call[p].pre

\* a delete of a record that was created and deleted before was refused
C4_Witness ==
    \E p \in Procs :
        /\ call[p].op = "delete" /\ Done(p)
        /\ <<call[p].inst.name, call[p].id.s>> \in DOMAIN life
        /\ life[<<call[p].inst.name, call[p].id.s>>] = "deleted"
        /\ call[p].result.code = "RECORD_NOT_FOUND"

\* C5: createWithValidation with data the schema rejects fails with
\* INVALID_DATA and writes nothing: the bucket, and so what findOne returns
\* for that id, is as before the call.
C5_SchemaGate ==
    \A p \in Procs :
        (/\ call[p].op = "createWithValidation" /\ Done(p)
         /\ ~ZodAccepts(call[p].inst.schema, call[p].arg))
            => /\ call[p].result = Thrown("INVALID_DATA")
               /\ store = call[p].pre
               /\ ~InvalidId(call[p].id) =>
                    GetRecord(store, call[p].inst.name, call[p].id.s)
                        = GetRecord(call[p].pre, call[p].inst.name, call[p].id.s)

\* a payload with a valid id that the schema rejects was refused, and the id
\* is still absent
C5_Witness ==
    \E p \in Procs :
        /\ call[p].op = "createWithValidation" /\ Done(p)
        /\ ~ZodAccepts(call[p].inst.schema, call[p].arg)
        /\ ~InvalidId(call[p].id)
        /\ call[p].result.code = "INVALID_DATA"
        /\ GetRecord(store, call[p].inst.name, call[p].id.s) = Null

\* the records findMany returned, in order, and as a set
Returned_(p) == call[p].result.list
ReturnedSet(p) == {Returned_(p)[i] : i \in 1..Len(Returned_(p))}

FindManyDone(p) == call[p].op = "findMany" /\ Done(p)

\* record r has every field named in the where of `opts` with the given value
Satisfies(r, opts) ==
    opts.where.def =>
        \A f \in DOMAIN opts.where.v : f \in DOMAIN r /\ r[f] = opts.where.v[f]

\* the records of the listed keys, in listing order
Loaded(p) ==
    [i \in 1..Len(call[p].listed) |-> ParseRecord(store[call[p].listed[i]])]

\* C6: findMany with a where mapping (and no offset or limit) returns exactly
\* the readable records of the model that equal the given value on every
\* field named in where, each once; when nothing matches it returns an empty
\* sequence and does not fail.
C6_WhereFilter ==
    \A p \in Procs :
        (FindManyDone(p) /\ ~call[p].opts.offset.def /\ ~call[p].opts.limit.def)
            => LET readable == {ParseRecord(store[k]) :
                                  k \in {GenerateKey(call[p].inst.name, t[2].s) :
                                            t \in QueryTargets} \cap DOMAIN store}
                   expected == {r \in readable : Satisfies(r, call[p].opts)}
               IN  /\ call[p].result.kind = "ok"
                   /\ ReturnedSet(p) = expected
                   /\ Len(Returned_(p)) = Cardinality(expected)

\* a where on two fields kept some record and dropped another that matched
\* on one field only
C6_Witness ==
    \E p \in Procs :
        /\ FindManyDone(p)
        /\ call[p].opts = [where |-> Where(("name" :> Str("A")) @@ ("active" :> Bool(TRUE))),
                           limit |-> Unset, offset |-> Unset]
        /\ Len(Returned_(p)) = 1
        /\ \E k \in DOMAIN store :
              /\ Field(ParseRecord(store[k]), "name") = Str("A")
              /\ Field(ParseRecord(store[k]), "active") # Bool(TRUE)

\* C7: for offset >= 0 and limit >= 0 (each optional), findMany returns the
\* elements at positions offset .. offset+limit-1 of the where-filtered
\* sequence in listing order; with only offset, everything from that
\* position on; with only limit, the first limit elements.
C7_OffsetThenLimit ==
    \A p \in Procs :
        (/\ FindManyDone(p)
         /\ call[p].opts.offset.def => call[p].opts.offset.v >= 0
         /\ call[p].opts.limit.def => call[p].opts.limit.v >= 0)
            => LET filtered == SelectSeq(Loaded(p), LAMBDA r : Satisfies(r, call[p].opts))
                   off   == IF call[p].opts.offset.def THEN call[p].opts.offset.v ELSE 0
                   rest  == IF Len(filtered) > off THEN Len(filtered) - off ELSE 0
                   n     == IF call[p].opts.limit.def /\ call[p].opts.limit.v < rest
                            THEN call[p].opts.limit.v
                            ELSE rest
               IN  /\ call[p].result.kind = "ok"
                   /\ Returned_(p) = [i \in 1..n |-> filtered[off + i]]

\* offset 1 and limit 1 over three records of which the filter keeps all:
\* the one record returned is the second of the listing
C7_Witness ==
    \E p \in Procs :
        /\ FindManyDone(p)
        /\ call[p].opts.where.def
        /\ call[p].opts.offset = Given(1) /\ call[p].opts.limit = Given(1)
        /\ Len(call[p].listed) = 3
        /\ \A i \in 1..3 : Satisfies(Loaded(p)[i], call[p].opts)
        /\ Returned_(p) = <<Loaded(p)[2]>>

\* C8: with no operation in flight, findMany with no options returns one
\* record per id for which findOne returns a record: the id derived from each
\* listed key is the id the record was created with, so none is skipped.
C8_FindManyListsEveryRecord ==
    \A p \in Procs :
        (FindManyDone(p) /\ call[p].opts = NoOptions /\ ~call[p].overlapped)
            => /\ \A id \in Ids :
                    LET one == GetRecord(store, call[p].inst.name, id)
                    IN  one.found => one.rec \in ReturnedSet(p)
               /\ \A i \in 1..Len(call[p].listed) :
                    GenerateKey(call[p].inst.name,
                                IdOfKey(ModelPrefix(call[p].inst.name), call[p].listed[i]))
                        = call[p].listed[i]

\* C9: the keys of the records of two distinct models are disjoint, and
\* findMany on a model returns only records created through that model.
C9_NamespacesDisjoint ==
    /\ \A t, u \in DOMAIN life :
          t[1] # u[1] => GenerateKey(t[1], t[2]) # GenerateKey(u[1], u[2])
    /\ \A p \in Procs :
          FindManyDone(p) =>
              \A r \in ReturnedSet(p) :
                  \E t \in DOMAIN life :
                      /\ t[1] = call[p].inst.name
                      /\ Live(t)
                      /\ GetRecord(store, t[1], t[2]) = Some(r)

\* C10: model(name) returns a plain model bound to that name and
\* schemaModel(name, s) a schema-validating model bound to that name,
\* whatever calls came before.
C10_CachesKeyedSeparately ==
    /\ lastGet.fn = "model"
          => lastGet.ret.kind = "BucketModel" /\ lastGet.ret.name = lastGet.name
    /\ lastGet.fn = "schemaModel"
          => lastGet.ret.kind = "BucketSchemaModel" /\ lastGet.ret.name = lastGet.name

\* C11: every call model(name) returns the instance the first model(name)
\* returned, and likewise schemaModel(name, .): an instance is never replaced
\* or evicted, and at most one instance of each kind is constructed per name.
C11_FirstCallerWins ==
    /\ lastGet.fn # "none"
          => /\ <<lastGet.fn, lastGet.name>> \in DOMAIN firstGet
             /\ lastGet.ret = firstGet[<<lastGet.fn, lastGet.name>>]
    /\ \A kn \in DOMAIN built : built[kn] <= 1

\* a later schemaModel call with another schema got the instance of the first
C11_Witness ==
    /\ lastGet.fn = "schemaModel"
    /\ ~lastGet.constructed
    /\ lastGet.ret.kind = "BucketSchemaModel"
    /\ lastGet.ret.name = lastGet.name
    /\ lastGet.ret.schema # lastGet.schema
    /\ lastGet.ret = firstGet[<<"schemaModel", lastGet.name>>]

\* record a equals record b field by field (a missing field reads undefined)
SameFields(a, b) ==
    \A f \in (DOMAIN a) \cup (DOMAIN b) : Field(a, f) = Field(b, f)

SucceededWrite(p) ==
    /\ call[p].op \in {"create", "update", "createWithValidation", "updateWithValidation"}
    /\ Done(p)
    /\ call[p].result.kind = "ok"

\* C12: decoding the object a create or an update has just stored yields the
\* record that was encoded, equal in every field, createdAt and updatedAt
\* being timestamps of the same instants; so findOne right after create
\* returns a record equal field by field to the one create returned.
C12_RoundTrip ==
    \A p \in Procs :
        SucceededWrite(p)
            => /\ CallKey(p) \in DOMAIN store
               /\ SameFields(ParseRecord(store[CallKey(p)]), ReturnedRecord(p))
               /\ GetRecord(store, call[p].inst.name, call[p].id.s).found
               /\ SameFields(GetRecord(store, call[p].inst.name, call[p].id.s).rec,
                             ReturnedRecord(p))

\* the call of p, which no other call overlapped, had to read an object that
\* is not JSON: the one at its record's key, or for findMany one under the
\* prefix of its model
ReadNotJSON(p) ==
    LET c == call[p]
    IN  \/ /\ c.op \in {"findOne", "create", "update", "delete"}
           /\ ~InvalidId(c.id)
           /\ CallKey(p) \in DOMAIN c.pre
           /\ c.pre[CallKey(p)] = NotJSON
        \/ /\ c.op = "findMany"
           /\ \E k \in DOMAIN c.pre :
                 /\ StartsWith(k, ModelPrefix(c.inst.name))
                 /\ EndsWith(k, JsonSuffix)
                 /\ c.pre[k] = NotJSON

\* C13: when the object at a record's key is not valid JSON, every operation
\* that reads it (findOne, findMany, and the existence reads of create,
\* update and delete) fails with a CorruptData error, a kind distinct from
\* StorageError.
C13_CorruptDataError ==
    \A p \in Procs :
        (Done(p) /\ ReadNotJSON(p))
            => /\ call[p].result.kind = "error"
               /\ call[p].result.code \in {"CORRUPT_DATA", "CorruptData"}
               /\ call[p].result.code # "STORAGE_ERROR"

\* the JSON form of a field value: a Date is written as the ISO-8601 string
\* of its instant, every other value as it is
Encoded(v) == IF v.t = "Date" THEN [s |-> "iso8601", t |-> "string", n |-> v.n] ELSE v

Timestamps == {"createdAt", "updatedAt"}

\* C14: a successful create stores and returns a record whose createdAt and
\* updatedAt are one instant, read from the clock during the call, also when
\* the caller's data carries createdAt or updatedAt of its own; every other
\* field of the caller's data is returned as given and stored in its JSON
\* form.
C14_CreateTimestamps ==
    \A p \in Procs :
        (call[p].op = "create" /\ Done(p) /\ call[p].result.kind = "ok")
            => LET r   == ReturnedRecord(p)
                   doc == store[CallKey(p)]
               IN  /\ Field(r, "createdAt") = DateOf(now)
                   /\ Field(r, "updatedAt") = Field(r, "createdAt")
                   /\ Field(doc, "createdAt") = Encoded(DateOf(now))
                   /\ Field(doc, "updatedAt") = Field(doc, "createdAt")
                   /\ \A f \in DOMAIN call[p].arg \ Timestamps :
                         /\ Field(r, f) = call[p].arg[f]
                         /\ Field(doc, f) = Encoded(call[p].arg[f])
                   /\ DOMAIN doc = DOMAIN call[p].arg \cup Timestamps

\* a create whose data carried other timestamps succeeded at instant 1
C14_Witness ==
    \E p \in Procs :
        /\ call[p].op = "create" /\ Done(p) /\ call[p].result.kind = "ok"
        /\ Timestamps \subseteq DOMAIN call[p].arg
        /\ call[p].arg["createdAt"] # call[p].arg["updatedAt"]
        /\ now = 1
        /\ Field(ReturnedRecord(p), "createdAt") = DateOf(1)
        /\ Field(ReturnedRecord(p), "createdAt") # call[p].arg["createdAt"]

\* C15: a successful update changes only the fields named in its data, plus
\* updatedAt: every other field of the stored object keeps the value it had
\* before the call, no field is lost, and the object at the key is the whole
\* merged record that update returns.
C15_UpdateFrame ==
    \A p \in Procs :
        SucceededUpdate(p)
            => LET before == call[p].pre[CallKey(p)]
                   after  == store[CallKey(p)]
               IN  /\ \A f \in DOMAIN before \ (DOMAIN call[p].arg \cup {"updatedAt"}) :
                         f \in DOMAIN after /\ after[f] = before[f]
                   /\ DOMAIN after = DOMAIN before \cup DOMAIN call[p].arg
                   /\ \A f \in DOMAIN after : after[f] = Encoded(Field(ReturnedRecord(p), f))
                   /\ \A k \in DOMAIN call[p].pre \ {CallKey(p)} :
                         k \in DOMAIN store /\ store[k] = call[p].pre[k]
                   /\ DOMAIN store = DOMAIN call[p].pre

\* an update of `active` alone changed it and kept name and the Date field
C15_Witness ==
    \E p \in Procs :
        /\ SucceededUpdate(p)
        /\ DOMAIN call[p].arg = {"active"}
        /\ "seen" \in DOMAIN call[p].pre[CallKey(p)]
        /\ store[CallKey(p)]["seen"] = call[p].pre[CallKey(p)]["seen"]
        /\ store[CallKey(p)]["name"] = call[p].pre[CallKey(p)]["name"]
        /\ store[CallKey(p)]["active"] = call[p].arg["active"]

\* the instant of updatedAt in the object at the key of p's call, before the
\* call and now
UpdatedAtBefore(p) == call[p].pre[CallKey(p)]["updatedAt"].n
UpdatedAtAfter(p) == store[CallKey(p)]["updatedAt"].n

\* C16 (as stated): after every successful update, the record's updatedAt is
\* strictly later than the updatedAt it had before that update.
C16_UpdatedAtStrictlyLater ==
    \A p \in Procs : SucceededUpdate(p) => UpdatedAtAfter(p) > UpdatedAtBefore(p)

\* C16 (amended): after every successful update, the record's updatedAt is
\* the instant the clock showed during that update; it is never earlier than
\* the updatedAt it had before, and equal to it when both writes fall in the
\* same millisecond.
C16_UpdatedAtNotEarlier ==
    \A p \in Procs :
        SucceededUpdate(p)
            => /\ UpdatedAtAfter(p) >= UpdatedAtBefore(p)
               /\ store[CallKey(p)]["updatedAt"] = Encoded(DateOf(now))
               /\ Field(ReturnedRecord(p), "updatedAt") = DateOf(now)

\* an update after the clock has advanced: updatedAt moved from 0 to 1, though
\* the data asked for another updatedAt
C16_Witness ==
    \E p \in Procs :
        /\ SucceededUpdate(p)
        /\ "updatedAt" \in DOMAIN call[p].arg
        /\ UpdatedAtBefore(p) = 0
        /\ UpdatedAtAfter(p) = 1

Reserved == {"id", "createdAt", "updatedAt"}

\* C17: after any sequence of create, update and delete calls, validated or
\* not, every object stored under a model's prefix holds a record with the
\* three reserved fields (id a string, createdAt and updatedAt timestamps),
\* and the object a create or an update has just written holds, besides
\* them, the fields of the data that was handed to create or update (for a
\* validated call: the fields the schema declares).
C17_ReservedFields ==
    /\ \A k \in DOMAIN store :
          /\ Reserved \subseteq DOMAIN store[k]
          /\ store[k]["id"].t = "string" /\ store[k]["id"].s # ""
          /\ \A f \in Timestamps : NewDate(store[k][f]) # InvalidDate
    /\ \A p \in Procs :
          SucceededWrite(p)
              => \A f \in DOMAIN call[p].data \ Reserved :
                    /\ f \in DOMAIN store[CallKey(p)]
                    /\ store[CallKey(p)][f] = Encoded(call[p].data[f])

\* an updateWithValidation whose data carried an id and timestamps of its own
\* left the record with its id and took the name
C17_Witness ==
    \E p \in Procs :
        /\ call[p].op = "updateWithValidation" /\ Done(p)
        /\ call[p].result.kind = "ok"
        /\ Reserved \subseteq DOMAIN call[p].arg
        /\ store[CallKey(p)]["id"] = call[p].id
        /\ store[CallKey(p)]["id"] # call[p].arg["id"]
        /\ store[CallKey(p)]["name"] = call[p].arg["name"]

\* model names and ids (none containing "/") over which keys are compared
KeyNames == ModelNames \cup {"mn", "m/na", "m.json"}
KeyIds == Ids \cup {"n", "na", "a.json", "b"}

\* C18: the record of model m with id i is stored at exactly the key
\* m + "/" + i + ".json", and for ids that contain no "/" two distinct
\* <<model name, id>> pairs never have the same key.
C18_KeyScheme ==
    /\ \A t \in DOMAIN life :
          Live(t) => /\ (t[1] \o "/" \o t[2] \o ".json") \in DOMAIN store
                     /\ store[t[1] \o "/" \o t[2] \o ".json"]["id"] = Str(t[2])
    /\ \A k \in DOMAIN store :
          \E t \in DOMAIN life : Live(t) /\ k = t[1] \o "/" \o t[2] \o ".json"
    /\ LET pairs == (DOMAIN life) \cup (KeyNames \X KeyIds)
       IN  Cardinality({GenerateKey(t[1], t[2]) : t \in pairs}) = Cardinality(pairs)

\* records of two models, two of them with the same id, are stored together
C18_Witness ==
    /\ Live(<<"m", "a">>) /\ Live(<<"m/n", "a">>) /\ Live(<<"m", ".jsona">>)
    /\ {"m/a.json", "m/n/a.json", "m/.jsona.json"} = DOMAIN store

\* C19: when a record is deleted by a concurrent call after findMany has
\* listed its key and before findMany reads it, findMany does not fail: it
\* skips that key and returns the records of the other listed keys.
C19_FindManySkipsDeleted ==
    \A p \in Procs :
        (FindManyDone(p) /\ call[p].missed # <<>>)
            => /\ call[p].result.kind = "ok"
               /\ \A i \in 1..Len(call[p].missed) :
                     \E j \in 1..Len(call[p].listed) :
                         call[p].listed[j] = call[p].missed[i]
               /\ Len(Returned_(p)) = Len(call[p].listed) - Len(call[p].missed)

\* of three listed keys one was deleted before its read; the other two
\* records came back
C19_Witness ==
    \E p \in Procs :
        /\ FindManyDone(p)
        /\ Len(call[p].listed) = 3
        /\ call[p].missed = <<"m/b.json">>
        /\ "m/b.json" \notin DOMAIN store
        /\ call[p].result.kind = "ok"
        /\ Len(Returned_(p)) = 2
        /\ \E i \in 1..2 : Field(Returned_(p)[i], "id") = Str("a")

\* C20: when createWithValidation succeeds, the record written to storage is
\* the schema's parsed output (the declared fields of the input, not the raw
\* input) plus createdAt and updatedAt, and that record is returned.
C20_ValidatedCreateStoresOutput ==
    \A p \in Procs :
        (call[p].op = "createWithValidation" /\ Done(p) /\ call[p].result.kind = "ok")
            => LET r        == ReturnedRecord(p)
                   doc      == store[CallKey(p)]
                   declared == (DOMAIN call[p].inst.schema) \cap (DOMAIN call[p].arg)
               IN  /\ DOMAIN r = declared \cup Timestamps
                   /\ \A f \in declared \ Timestamps : r[f] = call[p].arg[f]
                   /\ r["createdAt"] = DateOf(now) /\ r["updatedAt"] = DateOf(now)
                   /\ DOMAIN doc = DOMAIN r
                   /\ \A f \in DOMAIN r : doc[f] = Encoded(r[f])

\* the input carried a field the schema does not declare: the create
\* succeeded and neither the returned nor the stored record has it
C20_Witness ==
    \E p \in Procs :
        /\ call[p].op = "createWithValidation" /\ Done(p)
        /\ call[p].result.kind = "ok"
        /\ "seen" \in DOMAIN call[p].arg
        /\ "seen" \notin DOMAIN ReturnedRecord(p)
        /\ "seen" \notin DOMAIN store[CallKey(p)]
        /\ store[CallKey(p)]["name"] = call[p].arg["name"]

\* the record update(idv, data) builds at instant t from the record `before`
ExpectedUpdate(before, idv, data, t) ==
    [f \in (DOMAIN before) \cup (DOMAIN data) \cup Reserved |->
        IF f = "id" THEN idv
        ELSE IF f = "createdAt" THEN Field(before, "createdAt")
        ELSE IF f = "updatedAt" THEN DateOf(t)
        ELSE IF f \in DOMAIN data THEN data[f]
        ELSE before[f]]

\* the call of p, whose data is taken to be `data`, ended as update does: it
\* was refused for its id or for a missing record and left the bucket alone,
\* or it returned the merged record and stored it at the key
EndedAsUpdate(p, data) ==
    LET c == call[p]
    IN  IF InvalidId(c.id)
        THEN c.result = Thrown("INVALID_DATA") /\ store = c.pre
        ELSE IF CallKey(p) \notin DOMAIN c.pre
        THEN c.result = Thrown("RECORD_NOT_FOUND") /\ store = c.pre
        ELSE LET merged == ExpectedUpdate(ParseRecord(c.pre[CallKey(p)]), c.id, data, now)
             IN  /\ c.result = Resolved(Some(merged))
                 /\ store = Upload(c.pre, CallKey(p), Stringify(merged))

Declared(schema, data) == [f \in (DOMAIN schema) \cap (DOMAIN data) |-> data[f]]

\* C22: validateData issues no storage call and changes no stored object:
\* for data the schema accepts it returns the data reduced to the declared
\* fields, for data the schema rejects it fails with INVALID_DATA.
C22_ValidateDataPure ==
    \A p \in Procs :
        (call[p].op = "validateData" /\ Done(p))
            => /\ call[p].io = <<>>
               /\ store = call[p].pre
               /\ IF \A f \in DOMAIN call[p].inst.schema :
                        Field(call[p].arg, f).t = call[p].inst.schema[f]
                  THEN call[p].result
                          = Resolved(Some(Declared(call[p].inst.schema, call[p].arg)))
                  ELSE call[p].result = Thrown("INVALID_DATA")

\* valid data with an undeclared field was returned without that field, and
\* no record of its id is stored
C22_Witness ==
    \E p \in Procs :
        /\ call[p].op = "validateData" /\ Done(p)
        /\ call[p].result.kind = "ok"
        /\ "seen" \in DOMAIN call[p].arg
        /\ "seen" \notin DOMAIN ReturnedRecord(p)
        /\ Field(ReturnedRecord(p), "id") = Str("a")
        /\ GenerateKey(call[p].inst.name, "a") \notin DOMAIN store

\* what a read of key k in bucket st yields
ReadOf(st, k) == IF k \in DOMAIN st THEN Some(ParseRecord(st[k])) ELSE Null

\* the key findMany reads for a listed key k of the model named m
DerivedKey(m, k) == GenerateKey(m, IdOfKey(ModelPrefix(m), k))

\* the call of p ended as the plain operation of its name does on a model of
\* that name, given the bucket it found; nothing here looks at the kind or
\* the schema of the instance
EndedAsPlain(p) ==
    LET c   == call[p]
        key == CallKey(p)
    IN  CASE c.op = "create" ->
               IF InvalidId(Field(c.arg, "id"))
               THEN c.result = Thrown("INVALID_DATA") /\ store = c.pre
               ELSE IF key \in DOMAIN c.pre
               THEN c.result = Thrown("RECORD_ALREADY_EXISTS") /\ store = c.pre
               ELSE LET rec == [f \in (DOMAIN c.arg) \cup Timestamps |->
                                  IF f \in Timestamps THEN DateOf(now) ELSE c.arg[f]]
                    IN  /\ c.result = Resolved(Some(rec))
                        /\ store = Upload(c.pre, key, Stringify(rec))
          [] c.op = "findOne" ->
               /\ store = c.pre
               /\ c.result = IF InvalidId(c.id) THEN Thrown("INVALID_DATA")
                             ELSE Resolved(ReadOf(c.pre, key))
          [] c.op = "update" -> EndedAsUpdate(p, c.arg)
          [] c.op = "delete" ->
               IF InvalidId(c.id)
               THEN c.result = Thrown("INVALID_DATA") /\ store = c.pre
               ELSE IF key \notin DOMAIN c.pre
               THEN c.result = Thrown("RECORD_NOT_FOUND") /\ store = c.pre
               ELSE /\ c.result = Resolved(Null)
                    /\ store = DeleteObject(c.pre, key)
          [] c.op = "findMany" ->
               LET under == {k \in DOMAIN c.pre :
                                /\ StartsWith(k, c.inst.name \o "/")
                                /\ EndsWith(k, ".json")}
                   read  == SelectSeq(c.listed,
                                      LAMBDA k : DerivedKey(c.inst.name, k) \in DOMAIN c.pre)
                   recs  == [i \in 1..Len(read) |->
                                ParseRecord(c.pre[DerivedKey(c.inst.name, read[i])])]
               IN  /\ store = c.pre
                   /\ {c.listed[i] : i \in 1..Len(c.listed)} = under
                   /\ Len(c.listed) = Cardinality(under)
                   /\ c.result = ResolvedList(FinalRecords(recs, c.opts))
          [] OTHER -> TRUE

PlainOps == {"create", "findOne", "findMany", "update", "delete"}

\* C23: create, findOne, findMany, update and delete called on a
\* schema-validating model never consult the schema: each ends exactly as it
\* does on a plain model of the same name, and so a create whose data the
\* schema rejects succeeds and stores the record.
C23_PlainPathIgnoresSchema ==
    \A p \in Procs :
        (Done(p) /\ call[p].op \in PlainOps) => EndedAsPlain(p)

\* a create, through the schema-validating model, of data its schema rejects
\* succeeded: the record is stored without the required field
C23_Witness ==
    \E p \in Procs :
        /\ call[p].op = "create" /\ Done(p)
        /\ call[p].inst.kind = "BucketSchemaModel"
        /\ ~ZodAccepts(call[p].inst.schema, call[p].arg)
        /\ call[p].result.kind = "ok"
        /\ CallKey(p) \in DOMAIN store
        /\ "active" \notin DOMAIN store[CallKey(p)]

\* the last write that reached key k was issued through a wrapper of the
\* model of `inst` of the other kind
ThroughOtherWrapper(k, inst) ==
    /\ k \in DOMAIN lastWrite
    /\ lastWrite[k].inst.name = inst.name
    /\ lastWrite[k].inst.kind # inst.kind

\* the record as a read of the object written for it yields it
AsStored(record) == ParseRecord(Stringify(record))

\* findOne through one wrapper, after the last write to its key went through
\* the other wrapper of the same name, returns what that write left
FindOneSeesOtherWrapper(p) ==
    (/\ call[p].op = "findOne" /\ Done(p)
     /\ ~InvalidId(call[p].id)
     /\ ThroughOtherWrapper(CallKey(p), call[p].inst))
        => call[p].result =
              IF lastWrite[CallKey(p)].op = "delete"
              THEN Resolved(Null)
              ELSE Resolved(Some(AsStored(lastWrite[CallKey(p)].rec)))

\* findMany (no options) through one wrapper returns every record last
\* written through the other wrapper of the same name, and none for an id
\* deleted through it
FindManySeesOtherWrapper(p) ==
    (FindManyDone(p) /\ call[p].opts = NoOptions)
        => \A k \in DOMAIN lastWrite :
              ThroughOtherWrapper(k, call[p].inst)
                  => IF lastWrite[k].op = "delete"
                     THEN \A r \in ReturnedSet(p) :
                             GenerateKey(call[p].inst.name, Field(r, "id").s) # k
                     ELSE AsStored(lastWrite[k].rec) \in ReturnedSet(p)

\* C24: a plain and a schema-validating model of one name work on the same
\* keys and nothing is cached: what a create, update or delete through one
\* wrapper left is what the next findOne and the next findMany through the
\* other wrapper return.
C24_WrappersShareStorage ==
    \A p \in Procs : FindOneSeesOtherWrapper(p) /\ FindManySeesOtherWrapper(p)

\* the id of p's call is missing, empty or not a string
BadId(p) ==
    LET idv == IF call[p].op = "create" THEN Field(call[p].arg, "id") ELSE call[p].id
    IN  idv.t # "string" \/ idv.s = ""

\* C25: a create whose data.id is missing, empty or not a string, and a
\* findOne, update or delete whose id is empty or not a string, fail with
\* INVALID_DATA without having issued a storage call; the bucket is unchanged.
C25_IdPrecondition ==
    \A p \in Procs :
        (Done(p) /\ call[p].op \in {"create", "findOne", "update", "delete"} /\ BadId(p))
            => /\ call[p].result = Thrown("INVALID_DATA")
               /\ call[p].io = <<>>
               /\ store = call[p].pre

\* with records stored, a create without an id and a findOne, update or
\* delete with a number for id or with an empty id were refused
C25_Witness ==
    \E p \in Procs :
        /\ Done(p) /\ BadId(p)
        /\ store # <<>>
        /\ call[p].result.code = "INVALID_DATA"
        /\ \/ call[p].op = "create" /\ "id" \notin DOMAIN call[p].arg
           \/ call[p].op \in {"findOne", "update", "delete"} /\ call[p].id.t = "number"

\* the storage calls of p's call that failed
Failures(p) == call[p].failed

\* C26: when an upload, download, delete or list call of the storage fails
\* for a reason other than a missing key, the operation that issued it fails
\* with STORAGE_ERROR carrying the original error, and the failed call is
\* the last storage call of the operation: it is not issued again.
C26_StorageErrorsWrapped ==
    \A p \in Procs :
        (Done(p) /\ Failures(p) # <<>>)
            => /\ call[p].result.kind = "error"
               /\ call[p].result.code = "STORAGE_ERROR"
               /\ call[p].result.details = Failures(p)[1][2]
               /\ Len(Failures(p)) = 1
               /\ call[p].io[Len(call[p].io)][1] = Failures(p)[1][1]
               /\ \A i \in 1..(Len(call[p].io) - 1) :
                     call[p].io[i] # call[p].io[Len(call[p].io)]

\* the positions in the storage calls of p's call at which `op` was issued
Issued(p, op) == {i \in 1..Len(call[p].io) : call[p].io[i][1] = op}

\* p's call issued `op` once, on the key of its id, after a download of that key
OnceAfterRead(p, op) ==
    /\ Cardinality(Issued(p, op)) = 1
    /\ \A i \in Issued(p, op) :
          /\ call[p].io[i][2] = CallKey(p)
          /\ \E j \in 1..(i - 1) : call[p].io[j] = <<"download", CallKey(p)>>

Refusals == {"INVALID_DATA", "RECORD_ALREADY_EXISTS", "RECORD_NOT_FOUND"}

\* C27: a successful create or update (validated or not) issues exactly one
\* upload and no delete, a successful delete exactly one storage delete and
\* no upload, each on the key of the record and after a download of that key
\* within the call; a call refused with INVALID_DATA, RECORD_ALREADY_EXISTS
\* or RECORD_NOT_FOUND issues neither.
C27_OneWriteAfterRead ==
    \A p \in Procs :
        Done(p) =>
            /\ SucceededWrite(p)
                  => OnceAfterRead(p, "upload") /\ Issued(p, "delete") = {}
            /\ (call[p].op = "delete" /\ call[p].result.kind = "ok")
                  => OnceAfterRead(p, "delete") /\ Issued(p, "upload") = {}
            /\ (call[p].result.kind = "error" /\ call[p].result.code \in Refusals)
                  => Issued(p, "upload") = {} /\ Issued(p, "delete") = {}

\* a successful update issued one download and then one upload of its key
C27_Witness ==
    \E p \in Procs :
        /\ SucceededUpdate(p)
        /\ call[p].io = << <<"download", CallKey(p)>>, <<"upload", CallKey(p)>> >>

\* C28: whenever a limit is given, findMany returns at most limit records
\* (none for a limit below zero), whatever the limit.
C28_LimitBounds ==
    \A p \in Procs :
        (FindManyDone(p) /\ call[p].opts.limit.def)
            => /\ call[p].result.kind = "ok"
               /\ Len(Returned_(p)) <= (IF call[p].opts.limit.v < 0
                                        THEN 0
                                        ELSE call[p].opts.limit.v)

\* C29: findMany with where { price: { gt: 500 } } returns the records of
\* the model whose price is greater than 500.
C29_GreaterThanFilter ==
    \A p \in Procs :
        (FindManyDone(p) /\ call[p].opts.where.def
                         /\ call[p].opts.where.v = ("price" :> Gt(500)))
            => /\ call[p].result.kind = "ok"
               /\ ReturnedSet(p)
                     = {r \in {ParseRecord(store[k]) : k \in DOMAIN store} :
                           Field(r, "price").t = "number" /\ Field(r, "price").n > 500}

Mutations == {"create", "update", "delete", "createWithValidation", "updateWithValidation"}

\* C30: a create, update or delete for id X on model M changes at most the
\* object at key M/X.json: every other object of the bucket, of M and of
\* every other model, is as the call found it, and none appears; so
\* update(X, {id: Y}) neither creates nor alters an object for Y.
C30_SingleKeyFrame ==
    \A p \in Procs :
        (Done(p) /\ call[p].op \in Mutations)
            => LET own == call[p].inst.name \o "/" \o call[p].id.s \o ".json"
               IN  /\ (DOMAIN store) \ {own} = (DOMAIN call[p].pre) \ {own}
                   /\ \A k \in (DOMAIN store) \ {own} : store[k] = call[p].pre[k]
                   /\ ("id" \in DOMAIN call[p].arg /\ call[p].arg["id"] # call[p].id)
                         => LET other == call[p].inst.name \o "/"
                                             \o call[p].arg["id"].s \o ".json"
                            IN  IF other \in DOMAIN call[p].pre
                                THEN other \in DOMAIN store
                                       /\ store[other] = call[p].pre[other]
                                ELSE other \notin DOMAIN store

\* with another record stored, an update whose data named another id changed
\* its own object only: no object of that id exists
C30_Witness ==
    \E p \in Procs :
        /\ SucceededUpdate(p)
        /\ "id" \in DOMAIN call[p].arg
        /\ call[p].arg["id"] # call[p].id
        /\ GenerateKey(call[p].inst.name, call[p].arg["id"].s) \notin DOMAIN store
        /\ store[CallKey(p)] # call[p].pre[CallKey(p)]
        /\ \E k \in DOMAIN store : k # CallKey(p) /\ store[k] = call[p].pre[k]

\* the model names under which the object at key k may have been stored: the
\* model of the call that wrote it last, any model for an object the bucket
\* held from the start
WriterModels(k) ==
    IF k \in DOMAIN lastWrite /\ k \in DOMAIN store
    THEN {lastWrite[k].inst.name}
    ELSE ModelNames

\* C31: after any sequence and any interleaving of create, update and delete
\* calls, the id field of every stored record is a string, and the key the
\* record is stored at is <model>/<that id>.json.
C31_StoredIdMatchesKey ==
    \A k \in DOMAIN store :
        /\ "id" \in DOMAIN store[k]
        /\ store[k]["id"].t = "string"
        /\ \E m \in WriterModels(k) : k = m \o "/" \o store[k]["id"].s \o ".json"

\* an update that overlapped another call and whose data named the id "zz"
\* wrote last: the record at its key still carries the id of the key
C31_Witness ==
    \E p \in Procs :
        /\ SucceededUpdate(p)
        /\ call[p].overlapped
        /\ "id" \in DOMAIN call[p].arg
        /\ call[p].arg["id"] = Str("zz")
        /\ CallKey(p) \in DOMAIN store
        /\ lastPut[CallKey(p)] = p
        /\ store[CallKey(p)]["id"] = call[p].id

\* p and q are overlapping updates of one record that have both uploaded
UpdatesOverlapped(p, q) ==
    /\ p # q
    /\ call[p].op = "update" /\ call[q].op = "update"
    /\ Done(p) /\ Done(q)
    /\ call[p].overlapped /\ call[q].overlapped
    /\ CallKey(p) = CallKey(q)
    /\ Issued(p, "upload") # {} /\ Issued(q, "upload") # {}

\* C32: two overlapping updates of one id both return success, each with the
\* record it merged from its own read, and no call reports a conflict; the
\* bucket is left with the record of the later upload alone, so that a
\* change only the earlier uploader made is lost.
C32_LostUpdate ==
    \A p, q \in Procs :
        UpdatesOverlapped(p, q)
            => /\ call[p].result = Resolved(Some(call[p].pending))
               /\ call[q].result = Resolved(Some(call[q].pending))
               /\ CallKey(p) \in DOMAIN store
               /\ lastPut[CallKey(p)] \in {p, q}
               /\ store[CallKey(p)] = Stringify(call[lastPut[CallKey(p)]].pending)

\* one update set `active`, the other `name`; both returned their change, and
\* the stored record has the new name and the old value of `active`
C32_Witness ==
    \E p, q \in Procs :
        /\ UpdatesOverlapped(p, q)
        /\ call[p].arg = ("active" :> Bool(FALSE))
        /\ (DOMAIN call[p].arg) \cap (DOMAIN call[q].arg) = {}
        /\ "name" \in DOMAIN call[q].arg
        /\ call[p].result.kind = "ok" /\ call[q].result.kind = "ok"
        /\ Field(ReturnedRecord(p), "active") = Bool(FALSE)
        /\ Field(ReturnedRecord(q), "name") = call[q].arg["name"]
        /\ Field(store[CallKey(p)], "name") = call[q].arg["name"]
        /\ Field(store[CallKey(p)], "active") = Bool(TRUE)
        /\ Field(call[p].pre[CallKey(p)], "name") # call[q].arg["name"]

\* the update of p was between its read and its write when a delete of its
\* record completed, and has written since
WroteAfterDelete(p) ==
    /\ call[p].op = "update"
    /\ call[p].raced
    /\ Done(p)

\* C33: an update that was between its read and its write when a delete of
\* its id completed still succeeds, returning the record it merged from its
\* read, and uploads it: unless a later call wrote the key again, the bucket
\* holds that record at the key the delete had removed.
C33_UpdateResurrects ==
    \A p \in Procs :
        WroteAfterDelete(p)
            => /\ call[p].result = Resolved(Some(call[p].pending))
               /\ Issued(p, "upload") # {}
               /\ lastWrite[CallKey(p)] = Written(call[p], call[p].pending)
                     => /\ CallKey(p) \in DOMAIN store
                        /\ store[CallKey(p)] = Stringify(call[p].pending)

\* the delete returned success and no create followed it, yet the bucket holds
\* the record again: the one the overtaken update uploaded
C33_Witness ==
    \E p, q \in Procs :
        /\ WroteAfterDelete(p)
        /\ call[q].op = "delete" /\ Done(q) /\ call[q].result = Resolved(Null)
        /\ CallKey(q) = CallKey(p)
        /\ life[<<call[p].inst.name, call[p].id.s>>] = "deleted"
        /\ CallKey(p) \in DOMAIN store
        /\ store[CallKey(p)] = Stringify(call[p].pending)
        /\ call[p].result.kind = "ok"

\* C34: under every interleaving of create, update and delete calls, with a
\* clock that never goes backwards, every stored record carries a createdAt
\* and an updatedAt, both instants, and its createdAt is not later than its
\* updatedAt.
C34_CreatedNotAfterUpdated ==
    \A k \in DOMAIN store :
        LET r == ParseRecord(store[k])
        IN  /\ Timestamps \subseteq DOMAIN r
            /\ r["createdAt"].t = "Date" /\ r["updatedAt"].t = "Date"
            /\ r["createdAt"] # InvalidDate /\ r["updatedAt"] # InvalidDate
            /\ r["createdAt"].n <= r["updatedAt"].n

\* an update that overlapped another call left a record created at instant 0
\* and updated at instant 1, beside a record whose two instants are equal
C34_Witness ==
    \E p \in Procs :
        /\ SucceededUpdate(p)
        /\ call[p].overlapped
        /\ CallKey(p) \in DOMAIN store
        /\ store[CallKey(p)] = Stringify(call[p].pending)
        /\ ParseRecord(store[CallKey(p)])["createdAt"].n = 0
        /\ ParseRecord(store[CallKey(p)])["updatedAt"].n = 1
        /\ \E k \in DOMAIN store :
              ParseRecord(store[k])["createdAt"] = ParseRecord(store[k])["updatedAt"]

\* C35: the schema of the instance schemaModel(name, .) returns is the one
\* the first schemaModel call for the name supplied, and every such call
\* returns the instance the first one returned, whatever schema it supplies.
C35_SchemaFixedByFirstCall ==
    lastGet.fn = "schemaModel"
        => /\ lastGet.name \in DOMAIN firstSchema
           /\ lastGet.ret = firstGet[<<"schemaModel", lastGet.name>>]
           /\ lastGet.ret.schema = firstSchema[lastGet.name]

\* the listed keys of p's findMany whose read found a record, in the order of
\* the reads
FoundKeys(p) ==
    SelectSeq(call[p].listed,
              LAMBDA k : \A i \in 1..Len(call[p].missed) : call[p].missed[i] # k)

\* the key the loading loop read for the listed key k
KeyReadFor(p, k) ==
    call[p].inst.name \o "/" \o IdOfKey(call[p].inst.name \o "/", k) \o ".json"

\* the documents the bucket held at key k at some instant since p's call
\* started
HeldDuring(p, k) ==
    (IF k \in DOMAIN call[p].pre THEN {call[p].pre[k]} ELSE {})
        \cup {e[2] : e \in {d \in call[p].during : d[1] = k}}

\* the contents of model "m" the bucket held when p's call started
ContentsAtStart(p) ==
    {ParseRecord(call[p].pre[k]) : k \in ListKeys(call[p].pre, "m/")}

\* C36: every record a findMany returns is the decoded content its key held
\* at some instant between the start and the end of the call: the content
\* the key held when the call started, or one uploaded to it since.
C36_EachRecordWasStored ==
    \A p \in Procs :
        (FindManyDone(p) /\ call[p].result.kind = "ok")
            => /\ Len(call[p].records) = Len(FoundKeys(p))
               /\ \A i \in 1..Len(call[p].records) :
                     \E doc \in HeldDuring(p, KeyReadFor(p, FoundKeys(p)[i])) :
                         call[p].records[i] = ParseRecord(doc)
               /\ ReturnedSet(p) \subseteq {call[p].records[i] : i \in 1..Len(call[p].records)}

\* the findMany read "a" as it was at the start; the other caller then
\* updated "a" and, in its next call, deleted "b" before the findMany read
\* it.  The call returned "a" alone in its first version, while the model
\* held both records as long as "a" had that version
C36_Witness ==
    \E p, q \in Procs :
        /\ FindManyDone(p) /\ call[p].result.kind = "ok"
        /\ call[q].op = "delete" /\ Done(q) /\ call[q].result = Resolved(Null)
        /\ CallKey(q) = "m/b.json"
        /\ call[p].listed = <<"m/a.json", "m/b.json">>
        /\ call[p].missed = <<"m/b.json">>
        /\ Returned_(p) = <<ParseRecord(call[p].pre["m/a.json"])>>
        /\ Cardinality(ContentsAtStart(p)) = 2
        /\ \E d \in call[p].during : d[1] = "m/a.json" /\ d[2] # call[p].pre["m/a.json"]
        /\ "m/a.json" \in DOMAIN store
        /\ store["m/a.json"] # call[p].pre["m/a.json"]
        /\ "m/b.json" \notin DOMAIN store

ReadOps == {"findOne", "findMany", "getSchema"}

\* the call of p, a findOne, findMany or getSchema, has returned or thrown
\* without an upload or a storage delete, and the bucket is as it found it
ReadLeftStorage(p) ==
    (Done(p) /\ call[p].op \in ReadOps)
        => /\ Issued(p, "upload") = {}
           /\ Issued(p, "delete") = {}
           /\ store = call[p].pre
           /\ call[p].op = "getSchema" => call[p].io = <<>>

\* C37: findOne, findMany and getSchema issue no upload and no storage
\* delete, and leave the objects of the bucket and their contents as they
\* found them, whether they return or throw; a model or schemaModel call
\* changes the instance cache alone: it issues no storage call and leaves the
\* bucket as it is.
C37_ReadsLeaveStorage ==
    /\ [](\A p \in Procs : ReadLeftStorage(p))
    /\ [][store' = store /\ call' = call /\ lastWrite' = lastWrite]_RegistryVars

\* a findMany that failed on a refused download, during which schemaModel
\* constructed an instance, left the two records of the bucket as they were
C37_Witness ==
    \E p \in Procs :
        /\ FindManyDone(p)
        /\ call[p].result.kind = "error"
        /\ call[p].result.code = "STORAGE_ERROR"
        /\ Issued(p, "download") # {}
        /\ lastGet.fn = "schemaModel" /\ lastGet.constructed
        /\ Cardinality(DOMAIN store) = 2
        /\ store = call[p].pre

====
